---------------------------- MODULE Spec2Model ----------------------------
(***************************************************************************)
(* A model of the computational core of Portfolio_System                   *)
(* (backend/app/core): identifier normalisation, the returns extractor,    *)
(* the frequency resampler and the portfolio aggregator.                   *)
(*                                                                         *)
(* State:                                                                  *)
(*   fund_details  the caller-owned daily table (data_cache.fund_details)  *)
(*                 that get_fund_returns / calculate_fund_flow_metrics     *)
(*                 receive by reference;                                   *)
(*   call          the last call made on the core: its operation, its      *)
(*                 arguments and what it returned.                         *)
(*                                                                         *)
(* Python values: None is the empty sequence None, a present value x is    *)
(* Some(x).  A float is an exact rational <<n, d>> with d > 0 in lowest    *)
(* terms; the pair <<0, 0>> is NaN (a null cell).  A date is the integer   *)
(* yyyymmdd, whose order is the calendar's.  A string is a sequence of     *)
(* one-character strings.                                                  *)
(***************************************************************************)
EXTENDS Integers, Sequences, FiniteSets, TLC

VARIABLES fund_details, call

vars == <<fund_details, call>>

None == <<>>

Some(x) == <<x>>

\* The table held when a specification is about a function that takes none.
NoTable == None

(***************************************************************************)
(* standardize_cnpj                                                        *)
(***************************************************************************)

\* Width of a standardized CNPJ.
CnpjLen == 14

\* Bound: the longest run of one character in an enumerated raw identifier.
MaxRunLen == 8

DigitChars == {"0", "1", "7"}

\* The characters raw identifiers are drawn from: digits and separators.
Chars == DigitChars \cup {"."}

\* str.isdigit on one character.
isdigit(c) == c \in DigitChars

\* ''.join(filter(str.isdigit, s))
filter_isdigit(s) == SelectSeq(s, isdigit)

\* str.zfill(width): left-pad with "0" up to width (no sign can lead the
\* string here, the non-digits having been removed).
zfill(s, width) ==
    IF Len(s) >= width THEN s
    ELSE [i \in 1..width |->
            IF i <= width - Len(s) THEN "0" ELSE s[i - (width - Len(s))]]

\* Mutant: the padding width is off by one.
standardize_cnpj_padbug(cnpj) ==
    IF cnpj = None THEN None
    ELSE LET cnpj_clean == filter_isdigit(cnpj[1])
         IN  IF Len(cnpj_clean) = CnpjLen THEN Some(cnpj_clean)
             ELSE IF Len(cnpj_clean) < CnpjLen
                  THEN Some(zfill(cnpj_clean, CnpjLen + 1))
                  ELSE Some(SubSeq(cnpj_clean, 1, CnpjLen))

\* Mutant: an over-long identifier keeps its last 14 digits, not its first.
standardize_cnpj_tailbug(cnpj) ==
    IF cnpj = None THEN None
    ELSE LET cnpj_clean == filter_isdigit(cnpj[1])
         IN  IF Len(cnpj_clean) = CnpjLen THEN Some(cnpj_clean)
             ELSE IF Len(cnpj_clean) < CnpjLen
                  THEN Some(zfill(cnpj_clean, CnpjLen))
                  ELSE Some(SubSeq(cnpj_clean, Len(cnpj_clean) - CnpjLen + 1,
                                   Len(cnpj_clean)))

\* standardize_cnpj(cnpj): cnpj is None or Some(string).
standardize_cnpj(cnpj) ==
    IF cnpj = None THEN None
    ELSE LET cnpj_clean == filter_isdigit(cnpj[1])
         IN  IF Len(cnpj_clean) = CnpjLen THEN Some(cnpj_clean)
             ELSE IF Len(cnpj_clean) < CnpjLen
                  THEN Some(zfill(cnpj_clean, CnpjLen))
                  ELSE Some(SubSeq(cnpj_clean, 1, CnpjLen))

\* n copies of the character c.
Run(c, n) == [i \in 1..n |-> c]

\* The raw identifiers enumerated: None, and every string made of three runs
\* of at most MaxRunLen equal characters (up to 3 * MaxRunLen characters, so
\* shorter than, equal to and longer than CnpjLen digits all occur).
CnpjInputs ==
    {None} \cup
    { Some(Run(c[1], n[1]) \o Run(c[2], n[2]) \o Run(c[3], n[3])) :
        c \in [1..3 -> Chars], n \in [1..3 -> 0..MaxRunLen] }

InitCnpj ==
    /\ fund_details = NoTable
    /\ call \in { [op |-> "input_cnpj", cnpj |-> x] : x \in CnpjInputs }

\* A caller standardizes the identifier it holds.
CallStandardizeCnpj ==
    /\ call.op = "input_cnpj"
    /\ call' = [op |-> "standardize_cnpj", cnpj |-> call.cnpj,
                result |-> standardize_cnpj(call.cnpj)]
    /\ UNCHANGED fund_details

NextCnpj == CallStandardizeCnpj

SpecCnpj == InitCnpj /\ [][NextCnpj]_vars

\* The digits of a string, in order (the claim's "after removing every
\* non-digit character"), computed from the end of the string.
RECURSIVE DigitsOf(_)
DigitsOf(s) ==
    IF Len(s) = 0 THEN <<>>
    ELSE LET front == DigitsOf(SubSeq(s, 1, Len(s) - 1))
         IN  IF s[Len(s)] \in DigitChars THEN Append(front, s[Len(s)])
             ELSE front

\* C7: standardize_cnpj returns None for None; otherwise a string of exactly
\* 14 digits: the input's digits left-padded with zeros when fewer than 14,
\* the first 14 of them when more, the digits themselves when exactly 14.
C7_StandardizeShape ==
    call.op = "standardize_cnpj" =>
        IF call.cnpj = None THEN call.result = None
        ELSE LET d == DigitsOf(call.cnpj[1])
                 n == Len(d)
                 r == call.result[1]
             IN  /\ call.result # None
                 /\ Len(r) = 14
                 /\ \A i \in 1..14 : r[i] \in DigitChars
                 /\ n = 14 => r = d
                 /\ n < 14 => /\ \A i \in 1..(14 - n) : r[i] = "0"
                              /\ \A j \in 1..n : r[14 - n + j] = d[j]
                 /\ n > 14 => \A i \in 1..14 : r[i] = d[i]

\* Witness of C7: an identifier with separators and more than 14 digits,
\* whose first and last 14 digits differ, has been standardized.
C7_Witness ==
    /\ call.op = "standardize_cnpj"
    /\ call.cnpj # None
    /\ Len(DigitsOf(call.cnpj[1])) > 14
    /\ Len(call.cnpj[1]) > Len(DigitsOf(call.cnpj[1]))
    /\ DigitsOf(call.cnpj[1])[1] # DigitsOf(call.cnpj[1])[Len(DigitsOf(call.cnpj[1]))]
    /\ Len(call.result[1]) = 14

\* C8: standardize_cnpj is idempotent on every input that bears a digit.
C8_Idempotent ==
    (/\ call.op = "standardize_cnpj"
     /\ call.cnpj # None
     /\ Len(DigitsOf(call.cnpj[1])) >= 1)
        => standardize_cnpj(call.result) = call.result

\* Witness of C8: a short identifier with a separator was padded.
C8_Witness ==
    /\ call.op = "standardize_cnpj"
    /\ call.cnpj # None
    /\ Len(DigitsOf(call.cnpj[1])) \in 1..13
    /\ Len(call.cnpj[1]) > Len(DigitsOf(call.cnpj[1]))
    /\ call.result[1][1] = "0"
    /\ standardize_cnpj(call.result) = call.result

(***************************************************************************)
(* Floats (exact rationals), dates                                         *)
(***************************************************************************)

Abs(n) == IF n < 0 THEN -n ELSE n

RECURSIVE GCD(_, _)
GCD(a, b) == IF b = 0 THEN a ELSE GCD(b, a % b)

\* numpy.nan / a null cell.
NaN == <<0, 0>>

\* pandas.isna on a float.
isna(x) == x[2] = 0

\* The float n/d (d # 0), in lowest terms with a positive denominator.
Rat(n, d) ==
    LET g == GCD(Abs(n), Abs(d))
        s == IF d < 0 THEN -1 ELSE 1
    IN  <<(s * n) \div g, Abs(d) \div g>>

\* Float arithmetic; NaN propagates.
RatAdd(x, y) == IF isna(x) \/ isna(y) THEN NaN
                ELSE Rat(x[1] * y[2] + y[1] * x[2], x[2] * y[2])

RatSub(x, y) == IF isna(x) \/ isna(y) THEN NaN
                ELSE Rat(x[1] * y[2] - y[1] * x[2], x[2] * y[2])

RatMul(x, y) == IF isna(x) \/ isna(y) THEN NaN
                ELSE Rat(x[1] * y[1], x[2] * y[2])

\* x / y for y # 0 (the quotas and totals divided by here are never 0).
RatDiv(x, y) == IF isna(x) \/ isna(y) THEN NaN
                ELSE Rat(x[1] * y[2], x[2] * y[1])

RatOne == <<1, 1>>

RatZero == <<0, 1>>

\* x <= y on non-NaN floats.
RatLeq(x, y) == x[1] * y[2] <= y[1] * x[2]

\* A date yyyymmdd and its parts.
YearOf(date) == date \div 10000

MonthOf(date) == (date \div 100) % 100

DayOf(date) == date % 100

MkDate(y, m, d) == y * 10000 + m * 100 + d

IsLeap(y) == (y % 4 = 0 /\ y % 100 # 0) \/ y % 400 = 0

DaysInMonth(y, m) ==
    IF m = 2 THEN (IF IsLeap(y) THEN 29 ELSE 28)
    ELSE IF m \in {4, 6, 9, 11} THEN 30 ELSE 31

\* date - pd.DateOffset(months=n): the month moves back n calendar months (a
\* negative n moves it forward) and the day is clipped to the month's length.
SubMonths(date, n) ==
    LET total == YearOf(date) * 12 + (MonthOf(date) - 1) - n
        y == total \div 12
        m == (total % 12) + 1
        dim == DaysInMonth(y, m)
    IN  MkDate(y, m, IF DayOf(date) > dim THEN dim ELSE DayOf(date))

\* pd.to_datetime on a date cell as read from a file: its parts <<y, m, d>>.
to_datetime(cell) == MkDate(cell[1], cell[2], cell[3])


(***************************************************************************)
(* Tables (pandas DataFrame) and series                                    *)
(*                                                                         *)
(* A table is [datetime_index, columns, rows]: whether its index is a      *)
(* DatetimeIndex, its column names in order, and its rows in insertion     *)
(* order, each [idx, cells] with idx the index label (a date under a       *)
(* DatetimeIndex, the row number otherwise) and cells the value of every   *)
(* column.  A series is a sequence of [date, value].                       *)
(***************************************************************************)

Range(f) == {f[i] : i \in DOMAIN f}

\* col in df.columns
HasCol(t, col) == col \in Range(t.columns)

\* The first name of the candidate list cands that is a column, else None:
\* the loop "for col in [...]: if col in fund_data.columns: ...; break".
first_present(cands, columns) ==
    LET hits == {i \in DOMAIN cands : cands[i] \in Range(columns)}
    IN  IF hits = {} THEN None
        ELSE Some(cands[CHOOSE i \in hits : \A j \in hits : i <= j])

ReturnCols == <<"DAILY_RETURN", "RENTABILIDADE", "RETURN", "RET">>

QuotaCols == <<"VL_QUOTA", "QUOTA", "NAV">>

\* Mutant: the alternate return columns are tried before DAILY_RETURN.
select_returns_col_swapped(columns) ==
    first_present(<<"RENTABILIDADE", "RETURN", "RET", "DAILY_RETURN">>, columns)

\* Lines 227-231: the return column used, or None.
select_returns_col(columns) == first_present(ReturnCols, columns)

\* Lines 235-239: the quota column used, or None.
select_quota_col(columns) == first_present(QuotaCols, columns)

\* fund_details['CNPJ_STANDARD'] = fund_details['CNPJ'].apply(standardize_cnpj):
\* the column is added to the table itself.
assign_cnpj_standard(t) ==
    [datetime_index |-> t.datetime_index,
     columns |-> Append(t.columns, "CNPJ_STANDARD"),
     rows |-> [i \in DOMAIN t.rows |->
                 [idx |-> t.rows[i].idx,
                  cells |-> ("CNPJ_STANDARD" :>
                                standardize_cnpj(Some(t.rows[i].cells["CNPJ"]))[1])
                            @@ t.rows[i].cells]]]

\* df[df['CNPJ_STANDARD'] == cnpj_standard]: a new frame of the matching rows.
filter_cnpj(t, cnpj) ==
    [datetime_index |-> t.datetime_index,
     columns |-> t.columns,
     rows |-> SelectSeq(t.rows, LAMBDA r : r.cells["CNPJ_STANDARD"] = cnpj)]

\* Lines 245-248 / 254-257: without a DatetimeIndex the first column becomes
\* the index and is parsed as dates.
ensure_date_index(f) ==
    IF f.datetime_index THEN f
    ELSE LET date_col == f.columns[1]
         IN  [datetime_index |-> TRUE,
              columns |-> Tail(f.columns),
              rows |-> [i \in DOMAIN f.rows |->
                          [idx |-> to_datetime(f.rows[i].cells[date_col]),
                           cells |-> [c \in Range(Tail(f.columns)) |->
                                         f.rows[i].cells[c]]]]]

\* index.is_monotonic_increasing
IsMonotonic(rows) ==
    \A i \in 1..(Len(rows) - 1) : rows[i].idx <= rows[i + 1].idx

\* s with the element x put after its first k elements.
InsertAt(s, k, x) == SubSeq(s, 1, k) \o <<x>> \o SubSeq(s, k + 1, Len(s))

\* The orders of the positions 1..n that a sort can give, built position by
\* position: <<a, b>> \in MayFollow says the row at b may stand after the row
\* at a.  Position n is put at every place the positions before and after it
\* allow.
RECURSIVE Orderings(_, _)
Orderings(n, MayFollow) ==
    IF n = 0 THEN {<<>>}
    ELSE UNION { { InsertAt(s, k, n) :
                     k \in { k \in 0..(n - 1) :
                               /\ \A i \in 1..k : <<s[i], n>> \in MayFollow
                               /\ \A i \in (k + 1)..(n - 1) : <<n, s[i]>> \in MayFollow } } :
                 s \in Orderings(n - 1, MayFollow) }

\* DataFrame.sort_index(): an index that is already monotonic is returned
\* as it is; otherwise the rows are ordered by the default kind='quicksort',
\* which is not stable: rows of equal date may come out in any order.  The
\* set of the orders the call can produce.
sort_index(rows) ==
    IF IsMonotonic(rows) THEN {rows}
    ELSE { [i \in 1..Len(rows) |-> rows[p[i]]] :
             p \in Orderings(Len(rows),
                             { ab \in (DOMAIN rows) \X (DOMAIN rows) :
                                 rows[ab[1]].idx <= rows[ab[2]].idx }) }

\* fund_data[col]: the column as a series over the index.
column_series(rows, col) ==
    [i \in DOMAIN rows |-> [date |-> rows[i].idx, value |-> rows[i].cells[col]]]

\* Series.dropna()
dropna(s) == SelectSeq(s, LAMBDA e : ~isna(e.value))

\* The elements of s at the positions in keep, in order.
RECURSIVE TakeFrom(_, _, _)
TakeFrom(s, keep, i) ==
    IF i > Len(s) THEN <<>>
    ELSE IF i \in keep THEN <<s[i]>> \o TakeFrom(s, keep, i + 1)
         ELSE TakeFrom(s, keep, i + 1)

\* returns[~returns.index.duplicated(keep='first')]
drop_duplicated(s) ==
    TakeFrom(s, {i \in DOMAIN s : \A j \in 1..(i - 1) : s[j].date # s[i].date}, 1)

\* Series.ffill(): a null takes the last non-null value before it.
RECURSIVE LastValid(_, _)
LastValid(s, i) ==
    IF i = 0 THEN NaN
    ELSE IF ~isna(s[i].value) THEN s[i].value ELSE LastValid(s, i - 1)

\* Series.pct_change() with its default fill_method='pad': nulls are filled
\* forward, then each value is divided by the one before it, minus 1; the
\* first has none before it.
pct_change(s) ==
    [i \in DOMAIN s |->
        [date |-> s[i].date,
         value |-> IF i = 1 THEN NaN
                   ELSE RatSub(RatDiv(LastValid(s, i), LastValid(s, i - 1)), RatOne)]]

\* Mutant: duplicate dates are kept.
clean_returns_keepdups(rows, returns_col) ==
    dropna(column_series(rows, returns_col))

\* Lines 260, 263: the return column without nulls, then without the later
\* rows of a date already seen.
clean_returns(rows, returns_col) ==
    drop_duplicated(dropna(column_series(rows, returns_col)))

\* Lines 251, 263: the quota's percentage change, cleaned the same way.
derive_returns(rows, quota_col) ==
    drop_duplicated(dropna(pct_change(column_series(rows, quota_col))))

\* What a call hands back: None, a pair of series, or an exception.
ResultNone == [kind |-> "none", filtered |-> <<>>, full |-> <<>>]

ResultRaise == [kind |-> "raise", filtered |-> <<>>, full |-> <<>>]

\* Mutant: the cutoff date itself is excluded from the window.
filter_period_strict(returns, period_months) ==
    IF period_months = None THEN returns
    ELSE LET cutoff_date == SubMonths(returns[Len(returns)].date, period_months[1])
         IN  SelectSeq(returns, LAMBDA e : e.date > cutoff_date)

\* Lines 269-273, returns not empty: the rows on or after the cutoff date.
filter_period(returns, period_months) ==
    IF period_months = None THEN returns
    ELSE LET cutoff_date == SubMonths(returns[Len(returns)].date, period_months[1])
         IN  SelectSeq(returns, LAMBDA e : e.date >= cutoff_date)

\* Mutant: the empty series is not turned into None.
window_nocheck(returns, period_months) ==
    IF Len(returns) = 0 /\ period_months # None THEN ResultRaise
    ELSE [kind |-> "ok",
          filtered |-> filter_period(returns, period_months),
          full |-> returns]

\* Lines 265-275.  returns.index[-1] raises IndexError on an empty index.
window(returns, period_months) ==
    IF Len(returns) = 0 THEN ResultNone
    ELSE [kind |-> "ok",
          filtered |-> filter_period(returns, period_months),
          full |-> returns]

\* What one call of get_fund_returns leaves behind: its result, the locals
\* returns_col and quota_col, and the caller's table after the call.
Outcome(result, returns_col, quota_col, table) ==
    [result |-> result, returns_col |-> returns_col, quota_col |-> quota_col,
     table |-> table]

\* get_fund_returns(fund_details, cnpj_standard, period_months): the set of
\* outcomes the call can have (one, but for the order sort_index gives rows
\* of equal date).  fund_details, cnpj_standard and period_months are None
\* or Some(value).
get_fund_returns(fd, cnpj_standard, period_months) ==
    IF fd = None \/ cnpj_standard = None
    THEN {Outcome(ResultNone, None, None, fd)}
    ELSE IF ~HasCol(fd[1], "CNPJ_STANDARD") /\ ~HasCol(fd[1], "CNPJ")
    THEN {Outcome(ResultNone, None, None, fd)}
    ELSE
      LET t == IF HasCol(fd[1], "CNPJ_STANDARD") THEN fd[1]
               ELSE assign_cnpj_standard(fd[1])
          fund_data == filter_cnpj(t, cnpj_standard[1])
          returns_col == select_returns_col(fund_data.columns)
          quota_col == IF returns_col = None
                       THEN select_quota_col(fund_data.columns) ELSE None
      IN  IF Len(fund_data.rows) = 0
          THEN {Outcome(ResultNone, None, None, Some(t))}
          ELSE IF returns_col = None /\ quota_col = None
          THEN {Outcome(ResultNone, None, None, Some(t))}
          ELSE { Outcome(window(IF returns_col = None
                                THEN derive_returns(sorted, quota_col[1])
                                ELSE clean_returns(sorted, returns_col[1]),
                                period_months),
                         returns_col, quota_col, Some(t)) :
                   sorted \in sort_index(ensure_date_index(fund_data).rows) }


(***************************************************************************)
(* calculate_fund_flow_metrics                                             *)
(***************************************************************************)

\* Window lengths of the weekly and monthly figures.
WeekRows == 5

MonthRows == 22

\* Lines 355-359: reset_index() keeps the old index as a first column named
\* "index"; the first of the original columns, parsed, becomes the index.
flow_date_index(f) ==
    IF f.datetime_index THEN f
    ELSE LET date_col == f.columns[1]
             cols == <<"index">> \o Tail(f.columns)
         IN  [datetime_index |-> TRUE,
              columns |-> cols,
              rows |-> [i \in DOMAIN f.rows |->
                          [idx |-> to_datetime(f.rows[i].cells[date_col]),
                           cells |-> [c \in Range(cols) |->
                                         IF c = "index" THEN f.rows[i].idx
                                         ELSE f.rows[i].cells[c]]]]]

\* sort_values(col, ascending=False): descending by col with the nulls last,
\* in their original order; kind='quicksort' is not stable, so rows of equal
\* value may come out in any order.  The set of the orders it can produce.
sort_values_desc(rows, col) ==
    { [i \in 1..Len(rows) |-> rows[p[i]]] :
        p \in Orderings(Len(rows),
                { ab \in (DOMAIN rows) \X (DOMAIN rows) :
                    LET a == rows[ab[1]].cells[col]
                        b == rows[ab[2]].cells[col]
                    IN  IF isna(a) THEN isna(b) /\ ab[1] < ab[2]
                        ELSE isna(b) \/ RatLeq(b, a) }) }

\* fund_data[~fund_data.index.duplicated(keep='first')] on whole rows.
drop_duplicated_rows(rows) ==
    TakeFrom(rows,
             {i \in DOMAIN rows : \A j \in 1..(i - 1) : rows[j].idx # rows[i].idx}, 1)

\* int(x): truncation toward zero.
IntOf(x) == IF x[1] >= 0 THEN x[1] \div x[2] ELSE -((-x[1]) \div x[2])

\* Mutant: iloc[-k + 1:], one row short of the window.
SumLast_short(rows, col, k) ==
    LET n == Len(rows)
        vals == [i \in 1..(k - 1) |-> rows[n - i + 1].cells[col]]
        add[i \in 0..(k - 1)] ==
            IF i = 0 THEN RatZero
            ELSE IF isna(vals[i]) THEN add[i - 1] ELSE RatAdd(vals[i], add[i - 1])
    IN  add[k - 1]

\* Series.iloc[-k:].sum(): nulls are skipped.
RECURSIVE SumLast(_, _, _)
SumLast(rows, col, k) ==
    IF k = 0 THEN RatZero
    ELSE LET x == rows[Len(rows) - k + 1].cells[col]
         IN  IF isna(x) THEN SumLast(rows, col, k - 1)
             ELSE RatAdd(x, SumLast(rows, col, k - 1))

\* safe_pct(value, base): base is None or Some(float).  A null base is
\* truthy and differs from 0, so the division is made and gives NaN.
safe_pct(value, base) ==
    IF base # None /\ base[1] # RatZero
    THEN RatMul(RatDiv(value, base[1]), <<100, 1>>)
    ELSE RatZero

\* Lines 371-432 on the de-duplicated, date-ordered rows (at least 2).
flow_figures(columns, rows) ==
    LET n == Len(rows)
        has_aum == "VL_PATRIM_LIQ" \in Range(columns)
        has_shareholders == "NR_COTST" \in Range(columns)
        has_transfers == "MOVIMENTACAO" \in Range(columns)
        cot(k) == rows[n - k + 1].cells["NR_COTST"]
        current_aum == IF has_aum THEN Some(rows[n].cells["VL_PATRIM_LIQ"]) ELSE None
        current_shareholders ==
            IF has_shareholders THEN Some(<<IntOf(cot(1)), 1>>) ELSE None
        daily_transfers ==
            IF has_transfers THEN rows[n].cells["MOVIMENTACAO"] ELSE RatZero
        daily_investors_change ==
            IF has_shareholders /\ n >= 2 THEN RatSub(cot(1), cot(2)) ELSE RatZero
        weekly_transfers ==
            IF n >= WeekRows /\ has_transfers
            THEN SumLast(rows, "MOVIMENTACAO", WeekRows) ELSE daily_transfers
        weekly_investors_change ==
            IF n >= WeekRows + 1 /\ has_shareholders
            THEN RatSub(cot(1), cot(WeekRows + 1)) ELSE daily_investors_change
        monthly_transfers ==
            IF n >= MonthRows /\ has_transfers
            THEN SumLast(rows, "MOVIMENTACAO", MonthRows) ELSE weekly_transfers
        monthly_investors_change ==
            IF n >= MonthRows + 1 /\ has_shareholders
            THEN RatSub(cot(1), cot(MonthRows + 1)) ELSE weekly_investors_change
        \* int(x) if x else 0
        int_or_zero(x) == IF x = RatZero THEN 0 ELSE IntOf(x)
    IN  IF ~has_aum /\ ~has_shareholders THEN [kind |-> "none"]
        \* int() of a null raises ValueError
        ELSE IF has_shareholders /\
                (isna(cot(1)) \/ isna(daily_investors_change)
                   \/ isna(weekly_investors_change)
                   \/ isna(monthly_investors_change))
        THEN [kind |-> "raise"]
        ELSE [kind |-> "ok",
              aum |-> current_aum,
              shareholders |-> current_shareholders,
              daily_transfers |-> daily_transfers,
              daily_transfers_pct |-> safe_pct(daily_transfers, current_aum),
              daily_investors |-> int_or_zero(daily_investors_change),
              daily_investors_pct |->
                  safe_pct(daily_investors_change, current_shareholders),
              weekly_transfers |-> weekly_transfers,
              weekly_transfers_pct |-> safe_pct(weekly_transfers, current_aum),
              weekly_investors |-> int_or_zero(weekly_investors_change),
              weekly_investors_pct |->
                  safe_pct(weekly_investors_change, current_shareholders),
              monthly_transfers |-> monthly_transfers,
              monthly_transfers_pct |-> safe_pct(monthly_transfers, current_aum),
              monthly_investors |-> int_or_zero(monthly_investors_change),
              monthly_investors_pct |->
                  safe_pct(monthly_investors_change, current_shareholders)]

\* Mutant: the date-ordered rows are used as they are, duplicates kept.
flow_dedup_skipped(dated) == {dated.rows}

\* Lines 361-364: with a shareholder column the rows are ordered by
\* shareholder count, highest first, and the first row of each date is kept;
\* without one the rows stay as they are.
flow_dedup(dated) ==
    IF "NR_COTST" \in Range(dated.columns)
    THEN {drop_duplicated_rows(r) : r \in sort_values_desc(dated.rows, "NR_COTST")}
    ELSE {dated.rows}

\* calculate_fund_flow_metrics(fund_details, cnpj_standard): the set of
\* outcomes [result, table, fund_data] the call can have, fund_data being
\* the rows it reached line 366 with.  It works on a copy of the matching
\* rows (line 347), so the caller's table is what it was.
calculate_fund_flow_metrics(fd, cnpj_standard) ==
    IF fd = None \/ cnpj_standard = None
    THEN {[result |-> [kind |-> "none"], table |-> fd, fund_data |-> None]}
    ELSE IF ~HasCol(fd[1], "CNPJ_STANDARD")
    THEN {[result |-> [kind |-> "none"], table |-> fd, fund_data |-> None]}
    ELSE
      LET fund_data == filter_cnpj(fd[1], cnpj_standard[1])
          dated == flow_date_index(fund_data)
          sorted == UNION {sort_index(r) : r \in flow_dedup(dated)}
      IN  IF Len(fund_data.rows) = 0
          THEN {[result |-> [kind |-> "none"], table |-> fd, fund_data |-> None]}
          ELSE { [result |-> IF Len(r) < 2 THEN [kind |-> "none"]
                             ELSE flow_figures(dated.columns, r),
                  table |-> fd,
                  fund_data |-> Some([columns |-> dated.columns, rows |-> r])] :
                   r \in sorted }


(***************************************************************************)
(* The tables and calls enumerated                                         *)
(***************************************************************************)

\* Bound: the most rows a table of the row-rich family holds.
MaxRows == 3

\* Raw identifiers of the two funds whose records the tables hold, as the
\* CNPJ column carries them.
RawCnpj == << <<"1", ".", "7">>, <<"7">> >>

\* A record's identifier as callers pass it.
StdCnpj(owner) == standardize_cnpj(Some(RawCnpj[owner]))[1]

\* An identifier no record carries.
AbsentCnpj == standardize_cnpj(Some(<<"1", "1">>))[1]

Dates == {20240131, 20240229, 20240331}

\* Position of a name in a candidate list (0 if absent).
RankIn(cands, col) ==
    IF col \in Range(cands) THEN CHOOSE i \in DOMAIN cands : cands[i] = col ELSE 0

\* The cell of column col in the record b = [date, owner, v]: v = 0 is a
\* record whose figures are null; each column carries its own values, so
\* that a series tells which column it was read from.
Cell(col, b) ==
    CASE col = "DT_COMPTC" -> <<YearOf(b.date), MonthOf(b.date), DayOf(b.date)>>
      [] col = "CNPJ" -> RawCnpj[b.owner]
      [] col = "CNPJ_STANDARD" -> StdCnpj(b.owner)
      [] col \in Range(ReturnCols) ->
            IF b.v = 0 THEN NaN ELSE Rat(b.v + 10 * RankIn(ReturnCols, col), 100)
      [] col \in Range(QuotaCols) ->
            IF b.v = 0 THEN NaN ELSE Rat(b.v + 10 * RankIn(QuotaCols, col), 1)
      [] col = "NR_COTST" -> IF b.v = 0 THEN NaN ELSE Rat(10 * b.v, 1)
      [] col = "VL_PATRIM_LIQ" -> IF b.v = 0 THEN NaN ELSE Rat(1000 * b.v, 1)
      [] col = "MOVIMENTACAO" -> IF b.v = 0 THEN NaN ELSE Rat(60 * b.v - 90, 1)

\* The table of the given layout holding the records base, in that order.
MkTable(datetime_index, columns, base) ==
    [datetime_index |-> datetime_index,
     columns |-> columns,
     rows |-> [i \in DOMAIN base |->
                 [idx |-> IF datetime_index THEN base[i].date ELSE i - 1,
                  cells |-> [c \in Range(columns) |-> Cell(c, base[i])]]]]

\* Records of the fund asked for (on 31 January with null or non-null
\* figures, on 29 February, on 31 March), and one record of another fund.
BaseRows ==
    [date : {20240131}, owner : {1}, v : 0..2]
      \cup [date : {20240229}, owner : {1}, v : {1}]
      \cup [date : {20240331}, owner : {1}, v : 1..2]
      \cup {[date |-> 20240229, owner |-> 2, v |-> 2]}

SeqsUpTo(S, n) == UNION {[1..k -> S] : k \in 0..n}

\* Row-rich family: four layouts (the demo table; a quota-only table; a file
\* table with a date column, a raw CNPJ column and RET; a file table with
\* CNPJ_STANDARD and NAV), every sequence of at most MaxRows records.
RichLayouts ==
    { [datetime_index |-> TRUE,
       columns |-> <<"CNPJ_STANDARD", "VL_QUOTA", "VL_PATRIM_LIQ", "NR_COTST",
                     "MOVIMENTACAO", "DAILY_RETURN">>],
      [datetime_index |-> TRUE,
       columns |-> <<"CNPJ_STANDARD", "VL_QUOTA", "NR_COTST">>],
      [datetime_index |-> FALSE,
       columns |-> <<"DT_COMPTC", "CNPJ", "RET", "VL_PATRIM_LIQ">>],
      [datetime_index |-> FALSE,
       columns |-> <<"DT_COMPTC", "CNPJ_STANDARD", "NAV", "MOVIMENTACAO">>] }

\* Column-rich family: CNPJ_STANDARD and every subset of the seven return
\* and quota columns, in an order that is not the priority order, and three
\* layouts without CNPJ_STANDARD; no record, or any two records with
\* figures.
ValueCols == <<"NAV", "RET", "QUOTA", "DAILY_RETURN", "VL_QUOTA", "RETURN",
               "RENTABILIDADE">>

WideLayouts ==
    { [datetime_index |-> TRUE,
       columns |-> <<"CNPJ_STANDARD">>
                     \o SelectSeq(ValueCols, LAMBDA c : c \in present)] :
        present \in SUBSET Range(ValueCols) }
      \cup { [datetime_index |-> TRUE, columns |-> <<"VL_QUOTA">>],
             [datetime_index |-> TRUE, columns |-> <<"CNPJ", "MOVIMENTACAO">>],
             [datetime_index |-> TRUE, columns |-> <<"CNPJ", "RETURN">>] }

WideRows ==
    { <<a, b>> : a, b \in [date : Dates, owner : {1}, v : 1..2] }

Tables ==
    {None}
      \cup { Some(MkTable(l.datetime_index, l.columns, base)) :
               l \in RichLayouts, base \in SeqsUpTo(BaseRows, MaxRows) }
      \cup { Some(MkTable(l.datetime_index, l.columns, base)) :
               l \in WideLayouts, base \in {<<>>} \cup WideRows }

\* The identifiers and windows callers ask with; the window varies for the
\* fund the tables hold.
CallIds == {None, Some(StdCnpj(1)), Some(AbsentCnpj)}

Periods == {None, Some(-1), Some(0), Some(1), Some(2)}

InitReturns ==
    /\ fund_details \in Tables
    /\ call = [op |-> "idle"]

\* A call is explored from a table no call was made on yet, and after a call
\* that changed the table; a further call on an unchanged table reaches
\* only states a first call reaches.
Fresh == IF call.op = "idle" THEN TRUE ELSE call.table_before # fund_details

\* A caller asks for a fund's returns on the shared table.
CallGetFundReturns ==
    \E id \in CallIds, pm \in Periods :
        /\ Fresh
        /\ id = Some(StdCnpj(1)) \/ pm = None
        /\ \E o \in get_fund_returns(fund_details, id, pm) :
              /\ fund_details' = o.table
              /\ call' = [op |-> "get_fund_returns",
                          table_before |-> fund_details,
                          cnpj_standard |-> id,
                          period_months |-> pm,
                          result |-> o.result,
                          returns_col |-> o.returns_col,
                          quota_col |-> o.quota_col]

\* A caller asks for a fund's flow metrics on the shared table.
CallCalculateFundFlowMetrics ==
    \E id \in CallIds :
        \E o \in calculate_fund_flow_metrics(fund_details, id) :
            /\ Fresh
            /\ fund_details' = o.table
            /\ call' = [op |-> "calculate_fund_flow_metrics",
                        table_before |-> fund_details,
                        cnpj_standard |-> id,
                        result |-> o.result,
                        fund_data |-> o.fund_data]

NextReturns == CallGetFundReturns \/ CallCalculateFundFlowMetrics

SpecReturns == InitReturns /\ [][NextReturns]_vars


(***************************************************************************)
(* Properties of get_fund_returns, stated on the table as it was passed    *)
(* (call.table_before), the arguments and the result.                      *)
(***************************************************************************)

IsGfr == call.op = "get_fund_returns"

IsGfrOk == IF IsGfr THEN call.result.kind = "ok" ELSE FALSE

\* The records of table t that carry identifier id, in insertion order, each
\* with its date: the identifier is CNPJ_STANDARD, or the CNPJ column
\* standardized; the date is the index, or the first column parsed.
RecordsOf(t, id) ==
    LET ident(r) == IF HasCol(t, "CNPJ_STANDARD") THEN r.cells["CNPJ_STANDARD"]
                    ELSE standardize_cnpj(Some(r.cells["CNPJ"]))[1]
        dated == [i \in DOMAIN t.rows |->
                    [date |-> IF t.datetime_index THEN t.rows[i].idx
                              ELSE to_datetime(t.rows[i].cells[t.columns[1]]),
                     ident |-> ident(t.rows[i]),
                     cells |-> t.rows[i].cells]]
    IN  SelectSeq(dated, LAMBDA r : r.ident = id)

\* The return column the priority of the claim designates, "" if none.
PriorityReturnCol(cols) ==
    IF "DAILY_RETURN" \in cols THEN "DAILY_RETURN"
    ELSE IF "RENTABILIDADE" \in cols THEN "RENTABILIDADE"
    ELSE IF "RETURN" \in cols THEN "RETURN"
    ELSE IF "RET" \in cols THEN "RET"
    ELSE ""

\* The quota column the priority of the claim designates, "" if none.
PriorityQuotaCol(cols) ==
    IF "VL_QUOTA" \in cols THEN "VL_QUOTA"
    ELSE IF "QUOTA" \in cols THEN "QUOTA"
    ELSE IF "NAV" \in cols THEN "NAV"
    ELSE ""

\* The column the series is to be read from.
SourceCol(cols) ==
    IF PriorityReturnCol(cols) # "" THEN PriorityReturnCol(cols)
    ELSE PriorityQuotaCol(cols)

\* The cases of missing data the claim lists, on the arguments of the call.
DataMissing ==
    \/ call.table_before = None
    \/ call.cnpj_standard = None
    \/ LET t == call.table_before[1]
           cols == Range(t.columns)
       IN  \/ ~("CNPJ_STANDARD" \in cols) /\ ~("CNPJ" \in cols)
           \/ LET recs == RecordsOf(t, call.cnpj_standard[1])
              IN  \/ Len(recs) = 0
                  \/ SourceCol(cols) = ""
                  \* nothing to clean a series from: every record's figure
                  \* is null, or a single record has no quota before it
                  \/ \A i \in DOMAIN recs : isna(recs[i].cells[SourceCol(cols)])
                  \/ PriorityReturnCol(cols) = "" /\ Len(recs) = 1

\* C1: get_fund_returns returns None and never raises whenever data is
\* missing (a null table or identifier, no identifier column, no matching
\* record, neither a return nor a quota column, a series empty after
\* cleaning); a series it does return is never empty.
C1_MissingDataIsNone ==
    IsGfr =>
        /\ call.result.kind # "raise"
        /\ DataMissing => call.result.kind = "none"
        /\ call.result.kind = "ok" => Len(call.result.full) >= 1

\* Witness of C1: records of the fund exist and a return column exists, but
\* every return is null; asked with a window, the call returned None.
C1_Witness ==
    /\ IsGfr
    /\ call.table_before # None
    /\ call.cnpj_standard # None
    /\ call.period_months # None
    /\ call.returns_col # None
    /\ Len(RecordsOf(call.table_before[1], call.cnpj_standard[1])) >= 2
    /\ call.result.kind = "none"

\* C2: the return source follows the fixed priority DAILY_RETURN,
\* RENTABILIDADE, RETURN, RET, and only when none of them is a column the
\* percentage change of the first of VL_QUOTA, QUOTA, NAV; every value of the
\* series comes from that column.
C2_SourcePriority ==
    IsGfrOk =>
        LET t == call.table_before[1]
            cols == Range(t.columns)
            recs == RecordsOf(t, call.cnpj_standard[1])
            full == call.result.full
        IN  IF PriorityReturnCol(cols) # ""
            THEN /\ call.returns_col = Some(PriorityReturnCol(cols))
                 /\ call.quota_col = None
                 /\ \A k \in DOMAIN full :
                       \E i \in DOMAIN recs :
                          /\ recs[i].date = full[k].date
                          /\ recs[i].cells[PriorityReturnCol(cols)] = full[k].value
            ELSE /\ call.returns_col = None
                 /\ call.quota_col = Some(PriorityQuotaCol(cols))
                 /\ \A k \in DOMAIN full :
                       \E i, j \in DOMAIN recs :
                          LET q1 == recs[i].cells[PriorityQuotaCol(cols)]
                              q2 == recs[j].cells[PriorityQuotaCol(cols)]
                          IN  /\ ~isna(q1) /\ ~isna(q2)
                              /\ full[k].value = RatSub(RatDiv(q2, q1), RatOne)

\* Witness of C2: RENTABILIDADE is read although RET and two quota columns
\* are columns too, DAILY_RETURN not being one.
C2_Witness ==
    /\ IsGfrOk
    /\ {"RENTABILIDADE", "RET", "VL_QUOTA", "NAV"} \subseteq
          Range(call.table_before[1].columns)
    /\ ~("DAILY_RETURN" \in Range(call.table_before[1].columns))
    /\ call.returns_col = Some("RENTABILIDADE")
    /\ Len(call.result.full) >= 2

\* A series in strictly increasing date order without a null value.
WellFormedSeries(s) ==
    /\ \A i \in 1..(Len(s) - 1) : s[i].date < s[i + 1].date
    /\ \A i \in DOMAIN s : ~isna(s[i].value)

\* C3: both series of a successful call are strictly increasing by date
\* (so hold no date twice) and hold no null value.
C3_SeriesWellFormed ==
    IsGfrOk => /\ WellFormedSeries(call.result.filtered)
               /\ WellFormedSeries(call.result.full)

\* Witness of C3: the fund's records were out of date order, held a date
\* twice and a null figure, and a series of two dates was returned.
C3_Witness ==
    /\ IsGfrOk
    /\ LET recs == RecordsOf(call.table_before[1], call.cnpj_standard[1])
       IN  /\ \E i, j \in DOMAIN recs : i < j /\ recs[i].date > recs[j].date
           /\ \E i, j \in DOMAIN recs : i < j /\ recs[i].date = recs[j].date
           /\ \E i \in DOMAIN recs : isna(recs[i].cells[SourceCol(Range(call.table_before[1].columns))])
    /\ Len(call.result.full) = 2

\* C4 (as claimed): on the return-column path the value reported for a date
\* is the value of the first record inserted with that date, a date whose
\* first record is null being dropped.
C4_FirstRecordWins ==
    (IF IsGfrOk THEN call.returns_col # None ELSE FALSE) =>
        LET recs == RecordsOf(call.table_before[1], call.cnpj_standard[1])
            full == call.result.full
        IN  \A k \in DOMAIN full :
               LET first == CHOOSE i \in DOMAIN recs :
                              /\ recs[i].date = full[k].date
                              /\ \A j \in 1..(i - 1) : recs[j].date # full[k].date
               IN  recs[first].cells[call.returns_col[1]] = full[k].value

\* s is the tail of t.
IsSuffix(s, t) ==
    /\ Len(s) <= Len(t)
    /\ \A i \in DOMAIN s : s[i] = t[Len(t) - Len(s) + i]

\* C5: with period_months the first output is the suffix of the full series
\* dated on or after the last date minus that many calendar months, and the
\* second is the full series, the one a call without a window returns;
\* without period_months both are the same; for period_months >= 0 the
\* window is not empty and ends as the full series does.
C5_Window ==
    IsGfrOk =>
        LET full == call.result.full
            filtered == call.result.filtered
        IN  /\ full \in { o.result.full :
                            o \in get_fund_returns(call.table_before,
                                                   call.cnpj_standard, None) }
            /\ IF call.period_months = None THEN filtered = full
               ELSE LET cutoff == SubMonths(full[Len(full)].date,
                                            call.period_months[1])
                    IN  /\ IsSuffix(filtered, full)
                        /\ \A i \in DOMAIN full :
                              (full[i].date >= cutoff) <=>
                                 (i > Len(full) - Len(filtered))
                        /\ call.period_months[1] >= 0 =>
                              /\ Len(filtered) >= 1
                              /\ filtered[Len(filtered)] = full[Len(full)]

\* Witness of C5: a window of one month from 31 March kept the record dated
\* on the cutoff day itself, 29 February, and dropped the one of 31 January.
C5_Witness ==
    /\ IsGfrOk
    /\ call.period_months = Some(1)
    /\ Len(call.result.full) = 3
    /\ Len(call.result.filtered) = 2
    /\ call.result.filtered[1].date = 20240229
    /\ call.result.filtered[2].date = 20240331

\* C6 (as claimed): after a call of get_fund_returns or
\* calculate_fund_flow_metrics the caller's table is what was passed in.
C6_TableUntouched ==
    call.op \in {"get_fund_returns", "calculate_fund_flow_metrics"} =>
        fund_details = call.table_before


(***************************************************************************)
(* get_returns_for_frequency                                               *)
(***************************************************************************)

\* Rolling windows of the weekly and monthly series.
WeeklyWindow == 5

MonthlyWindow == 22

\* Bound: the longest daily series enumerated.
MaxDays == 24

\* (1 + x).prod() - 1 over s[from..to]; a null makes the product null.
RECURSIVE ProdOnePlus(_, _, _)
ProdOnePlus(s, from, to) ==
    IF from > to THEN RatOne
    ELSE RatMul(RatAdd(RatOne, s[to].value), ProdOnePlus(s, from, to - 1))

\* Mutant: rolling(window, min_periods=1), the window growing from one point.
rolling_compound_minperiods1(s, w) ==
    [i \in DOMAIN s |->
        [date |-> s[i].date,
         value |-> RatSub(ProdOnePlus(s, IF i < w THEN 1 ELSE i - w + 1, i),
                          RatOne)]]

\* Series.rolling(window=w).apply(lambda x: (1 + x).prod() - 1): one value
\* per point, null until w observations are in the window (min_periods is
\* the window) and wherever the window holds a null.
rolling_compound(s, w) ==
    [i \in DOMAIN s |->
        [date |-> s[i].date,
         value |-> IF i < w THEN NaN
                   ELSE RatSub(ProdOnePlus(s, i - w + 1, i), RatOne)]]

\* The sum of the values of a series.
RECURSIVE SumValues(_, _)
SumValues(s, n) == IF n = 0 THEN RatZero ELSE RatAdd(s[n].value, SumValues(s, n - 1))

\* Series.mean()
mean(s) == RatDiv(SumValues(s, Len(s)), <<Len(s), 1>>)

\* Series.std() squared: the sample variance (ddof = 1), null for one point.
std_squared(s) ==
    IF Len(s) < 2 THEN NaN
    ELSE LET m == mean(s)
             dev == [i \in DOMAIN s |->
                       [date |-> s[i].date,
                        value |-> RatMul(RatSub(s[i].value, m),
                                         RatSub(s[i].value, m))]]
         IN  RatDiv(SumValues(dev, Len(dev)), <<Len(s) - 1, 1>>)

\* get_returns_for_frequency(daily_returns, frequency): the tuple (returns,
\* mean, std, latest), the standard deviation given by its square.
get_returns_for_frequency(daily_returns, frequency) ==
    LET returns ==
          IF frequency = "daily" THEN daily_returns
          ELSE IF frequency = "weekly"
               THEN dropna(rolling_compound(daily_returns, WeeklyWindow))
          ELSE IF frequency = "monthly"
               THEN dropna(rolling_compound(daily_returns, MonthlyWindow))
          ELSE daily_returns
    IN  IF Len(returns) = 0
        THEN [returns |-> returns, mean |-> RatZero, std_squared |-> RatZero,
              latest |-> RatZero]
        ELSE [returns |-> returns, mean |-> mean(returns),
              std_squared |-> std_squared(returns),
              latest |-> returns[Len(returns)].value]

\* The daily series enumerated: n consecutive days, flat but for a day with
\* +100% and a day with -50% (one day with both: +100% stays).
DailySeries(n, up, down) ==
    [i \in 1..n |->
        [date |-> 20240100 + i,
         value |-> IF i = up THEN <<1, 1>>
                   ELSE IF i = down THEN <<-1, 2>> ELSE RatZero]]

DailyInputs ==
    {<<>>} \cup
    { DailySeries(n, up, down) : n \in 1..MaxDays, up \in 1..MaxDays, down \in 1..MaxDays }

Frequencies == {"daily", "weekly", "monthly", "yearly"}

InitFreq ==
    /\ fund_details = NoTable
    /\ call \in { [op |-> "input_frequency", daily_returns |-> d, frequency |-> f] :
                    d \in DailyInputs, f \in Frequencies }

\* A caller resamples the daily series it holds.
CallGetReturnsForFrequency ==
    /\ call.op = "input_frequency"
    /\ call' = [op |-> "get_returns_for_frequency",
                daily_returns |-> call.daily_returns,
                frequency |-> call.frequency,
                result |-> get_returns_for_frequency(call.daily_returns,
                                                     call.frequency)]
    /\ UNCHANGED fund_details

NextFreq == CallGetReturnsForFrequency

SpecFreq == InitFreq /\ [][NextFreq]_vars

\* The compounded return of the w days ending at day i of series s:
\* (1 + r) multiplied over those days, less 1.
RECURSIVE Compound(_, _, _)
Compound(s, i, w) ==
    IF w = 0 THEN RatOne
    ELSE RatMul(Compound(s, i - 1, w - 1), RatAdd(RatOne, s[i].value))

\* The claim's rolling series of window w: max(0, N - w + 1) points, the
\* k-th dated at day k + w - 1 and compounding the w days ending there.
IsRollingOf(out, s, w) ==
    /\ Len(out) = (IF Len(s) >= w THEN Len(s) - (w - 1) ELSE 0)
    /\ \A k \in DOMAIN out :
          /\ out[k].date = s[k + w - 1].date
          /\ out[k].value = RatSub(Compound(s, k + w - 1, w), RatOne)

\* C9: 'daily' returns the series unchanged; 'weekly' returns max(0, N - 4)
\* points, each the compounded return of the 5 days ending at its date;
\* 'monthly' the same with 22 days and max(0, N - 21) points.
C9_Resample ==
    call.op = "get_returns_for_frequency" =>
        /\ call.frequency = "daily" => call.result.returns = call.daily_returns
        /\ call.frequency = "weekly" =>
              IsRollingOf(call.result.returns, call.daily_returns, 5)
        /\ call.frequency = "monthly" =>
              IsRollingOf(call.result.returns, call.daily_returns, 22)

\* Witness of C9: a monthly series of two points was returned whose values
\* differ, the first window holding a day the second does not.
C9_Witness ==
    /\ call.op = "get_returns_for_frequency"
    /\ call.frequency = "monthly"
    /\ Len(call.daily_returns) = 23
    /\ Len(call.result.returns) = 2
    /\ call.result.returns[1].value # call.result.returns[2].value


(***************************************************************************)
(* calculate_portfolio_returns                                             *)
(***************************************************************************)

\* Bound: the number of dates the fund series are drawn over.
MaxDates == 3

Funds == <<"A", "B">>

\* A mapping keyed by fund name is a sequence of [name, ...] records in
\* insertion order, each name at most once.
Names(m) == { m[i].name : i \in DOMAIN m }

Lookup(m, name) == m[CHOOSE i \in DOMAIN m : m[i].name = name]

\* The value of series s at date d, null where s has no entry for d.
ValueAt(s, d) ==
    IF \E i \in DOMAIN s : s[i].date = d
    THEN s[CHOOSE i \in DOMAIN s : s[i].date = d].value
    ELSE NaN

\* The dates of a set, ascending.
RECURSIVE SortedDates(_)
SortedDates(D) ==
    IF D = {} THEN <<>>
    ELSE LET d == CHOOSE x \in D : \A y \in D : x <= y
         IN  <<d>> \o SortedDates(D \ {d})

\* pd.DataFrame(fund_returns_dict): one row per date of the union of the
\* series' dates, ascending, one column per series, null where a series has
\* no entry.
DataFrame(fund_returns_dict) ==
    LET dates == SortedDates(UNION { { Lookup(fund_returns_dict, n).series[i].date :
                                          i \in DOMAIN Lookup(fund_returns_dict, n).series } :
                                      n \in Names(fund_returns_dict) })
    IN  [k \in DOMAIN dates |->
            [date |-> dates[k],
             cells |-> [n \in Names(fund_returns_dict) |->
                          ValueAt(Lookup(fund_returns_dict, n).series, dates[k])]]]

\* Mutant: dropna(how='all'), dropping only the rows that are null throughout.
dropna_rows_how_all(frame) ==
    SelectSeq(frame, LAMBDA r : \E n \in DOMAIN r.cells : ~isna(r.cells[n]))

\* DataFrame.dropna(): the rows with no null cell.
dropna_rows(frame) ==
    SelectSeq(frame, LAMBDA r : \A n \in DOMAIN r.cells : ~isna(r.cells[n]))

\* sum(weights.values())
RECURSIVE sum_weights(_, _)
sum_weights(weights, n) ==
    IF n = 0 THEN RatZero ELSE RatAdd(sum_weights(weights, n - 1), weights[n].weight)

\* Mutant: the weights are used as given, never divided by their total.
normalized_weights_raw(weights, total_weight) == weights

\* normalized_weights = {k: v / total_weight for k, v in weights.items()}
normalized_weights(weights, total_weight) ==
    [i \in DOMAIN weights |->
        [name |-> weights[i].name,
         weight |-> RatDiv(weights[i].weight, total_weight)]]

\* The loop over normalized_weights: starting from 0.0, the first n weighted
\* funds that are columns of the frame are added to the value of the row.
RECURSIVE accumulate(_, _, _)
accumulate(row, normalized, n) ==
    IF n = 0 THEN RatZero
    ELSE LET acc == accumulate(row, normalized, n - 1)
         IN  IF normalized[n].name \in DOMAIN row.cells
             THEN RatAdd(acc, RatMul(row.cells[normalized[n].name],
                                     normalized[n].weight))
             ELSE acc

\* calculate_portfolio_returns(fund_returns_dict, weights)
calculate_portfolio_returns(fund_returns_dict, weights) ==
    IF Len(fund_returns_dict) = 0 \/ Len(weights) = 0 THEN None
    ELSE LET total_weight == sum_weights(weights, Len(weights))
             returns_df == dropna_rows(DataFrame(fund_returns_dict))
         IN  IF total_weight = RatZero THEN None
             ELSE IF Len(returns_df) = 0 THEN None
             ELSE Some([k \in DOMAIN returns_df |->
                          [date |-> returns_df[k].date,
                           value |-> accumulate(returns_df[k],
                                                normalized_weights(weights, total_weight),
                                                Len(weights))]])

\* The series enumerated for fund f (1 or 2): at each date no entry ("-"),
\* a null ("n") or a return that differs by fund and date ("v").
FundSeries(f, shape) ==
    LET kept == SelectSeq([d \in 1..MaxDates |-> d], LAMBDA d : shape[d] # "-")
    IN  [k \in DOMAIN kept |->
            [date |-> 20240100 + kept[k],
             value |-> IF shape[kept[k]] = "n" THEN NaN
                       ELSE Rat(kept[k] + 10 * f, 100)]]

Shapes == [1..MaxDates -> {"-", "n", "v"}]

SeriesMaps ==
    {<<>>} \cup
    { << [name |-> Funds[f], series |-> FundSeries(f, a)] >> : f \in 1..2, a \in Shapes } \cup
    { << [name |-> "A", series |-> FundSeries(1, a)],
         [name |-> "B", series |-> FundSeries(2, b)] >> : a \in Shapes, b \in Shapes }

WeightValues == { <<-1, 1>>, <<0, 1>>, <<1, 1>>, <<3, 1>> }

WeightMaps ==
    {<<>>} \cup
    { << [name |-> Funds[f], weight |-> x] >> : f \in 1..2, x \in WeightValues } \cup
    { << [name |-> "A", weight |-> x], [name |-> "B", weight |-> y] >> :
         x \in WeightValues, y \in WeightValues }

InitPortfolio ==
    /\ fund_details = NoTable
    /\ call \in { [op |-> "input_portfolio", fund_returns_dict |-> m, weights |-> w] :
                    m \in SeriesMaps, w \in WeightMaps }

\* A caller aggregates the fund series it extracted under its weights.
CallCalculatePortfolioReturns ==
    /\ call.op = "input_portfolio"
    /\ call' = [op |-> "calculate_portfolio_returns",
                fund_returns_dict |-> call.fund_returns_dict,
                weights |-> call.weights,
                result |-> calculate_portfolio_returns(call.fund_returns_dict,
                                                       call.weights)]
    /\ UNCHANGED fund_details

NextPortfolio == CallCalculatePortfolioReturns

SpecPortfolio == InitPortfolio /\ [][NextPortfolio]_vars


IsCpr == call.op = "calculate_portfolio_returns"

\* The total of all the weights of a weight map.
TotalOf(w) ==
    LET one(f) == IF f \in Names(w) THEN Lookup(w, f).weight ELSE RatZero
    IN  RatAdd(one("A"), one("B"))

\* The share of fund f at date d: its weight over the total of all weights,
\* times its return at d; nothing for a fund without a weight or a series.
Share(m, w, f, d) ==
    IF f \in Names(w) /\ f \in Names(m)
    THEN RatMul(RatDiv(Lookup(w, f).weight, TotalOf(w)),
                ValueAt(Lookup(m, f).series, d))
    ELSE RatZero

\* C10: the result is null when the weights total 0; otherwise the output at
\* each of its dates is the sum, over the funds with both a weight and a
\* series, of weight / total of all weights times the fund's return at that
\* date.  So weights {A: 1, B: 1} give 0.5 A + 0.5 B, a single fund at
\* weight 1 reproduces its series, and a weighted fund without a series
\* adds nothing and rescales nothing.
C10_WeightedSum ==
    IsCpr =>
        LET m == call.fund_returns_dict
            w == call.weights
            out == call.result[1]
        IN  /\ TotalOf(w) = RatZero => call.result = None
            /\ call.result # None =>
                  \A k \in DOMAIN out :
                      out[k].value = RatAdd(Share(m, w, "A", out[k].date),
                                            Share(m, w, "B", out[k].date))
            /\ (call.result # None /\ Names(w) = {"A", "B"} /\ Names(m) = {"A", "B"}
                  /\ \A i \in DOMAIN w : w[i].weight = RatOne) =>
                  \A k \in DOMAIN out :
                      out[k].value =
                          RatAdd(RatMul(<<1, 2>>, ValueAt(Lookup(m, "A").series, out[k].date)),
                                 RatMul(<<1, 2>>, ValueAt(Lookup(m, "B").series, out[k].date)))
            /\ (Len(w) = 1 /\ w[1].weight = RatOne /\ Len(m) = 1
                  /\ m[1].name = w[1].name /\ Len(m[1].series) > 0
                  /\ \A i \in DOMAIN m[1].series : ~isna(m[1].series[i].value)) =>
                  call.result = Some(m[1].series)
            /\ (call.result # None /\ Names(w) = {"A", "B"} /\ Names(m) = {"A"}) =>
                  \A k \in DOMAIN out :
                      out[k].value =
                          RatMul(RatDiv(Lookup(w, "A").weight,
                                        RatAdd(Lookup(w, "A").weight, Lookup(w, "B").weight)),
                                 ValueAt(Lookup(m, "A").series, out[k].date))

\* Witness of C10: fund A weighted 1 and fund B weighted 3, only A with a
\* series; the output is a quarter of A at each of A's dates.
C10_Witness ==
    /\ IsCpr
    /\ call.weights = << [name |-> "A", weight |-> <<1, 1>>],
                         [name |-> "B", weight |-> <<3, 1>>] >>
    /\ Names(call.fund_returns_dict) = {"A"}
    /\ call.result # None
    /\ Len(call.result[1]) = 2
    /\ call.result[1][1].value = <<11, 400>>


\* The dates at which every series of the map m has a non-null value.
JoinedDates(m) ==
    { d \in UNION { { Lookup(m, n).series[i].date : i \in DOMAIN Lookup(m, n).series } :
                    n \in Names(m) } :
        \A n \in Names(m) : ~isna(ValueAt(Lookup(m, n).series, d)) }

\* C11: the dates of the series returned by calculate_portfolio_returns are
\* exactly the dates at which every series of the series map is non-null,
\* the series of funds without a weight included; the result is null when
\* there is no such date.
C11_StrictIntersection ==
    IsCpr =>
        LET m == call.fund_returns_dict
            out == call.result[1]
        IN  /\ call.result # None =>
                  /\ { out[k].date : k \in DOMAIN out } = JoinedDates(m)
                  /\ \A j, k \in DOMAIN out : j < k => out[j].date < out[k].date
            /\ JoinedDates(m) = {} => call.result = None

\* Witness of C11: fund A alone is weighted, fund B has a series too; A has
\* a return at three dates, B lacks one of them and is null at another, and
\* the result holds the one remaining date.
C11_Witness ==
    /\ IsCpr
    /\ Names(call.weights) = {"A"}
    /\ Names(call.fund_returns_dict) = {"A", "B"}
    /\ LET a == Lookup(call.fund_returns_dict, "A").series
           b == Lookup(call.fund_returns_dict, "B").series
       IN  /\ Len(a) = 3
           /\ \A i \in DOMAIN a : ~isna(a[i].value)
           /\ Len(b) = 2
           /\ b[1].date = 20240102 /\ ~isna(b[1].value)
           /\ b[2].date = 20240103 /\ isna(b[2].value)
    /\ call.result # None
    /\ Len(call.result[1]) = 1
    /\ call.result[1][1].date = 20240102


(***************************************************************************)
(* optimize_portfolio                                                      *)
(***************************************************************************)

\* The observations a fund and the joined matrix need.
MinObservations == 252

\* options={'maxiter': 1000}
MaxIter == 1000

\* threshold = 0.01
threshold == <<1, 100>>

\* Bound: the longest list of fund names drawn from the small funds.
MaxRequest == 2

\* Bound: the number of funds of the large universe.
BigUniverse == 101

\* x < y on non-NaN floats; a comparison with NaN is false.
RatLess(x, y) == ~isna(x) /\ ~isna(y) /\ x[1] * y[2] < y[1] * x[2]

\* What get_fund_returns_by_name(name, ..., period_months=36) gives from the
\* loaded cache: nothing for fund 5, otherwise a series with one return a
\* day from day `first` to day `last` of the lookback, the same return every
\* day.  Funds 1, 2 and those of the large universe (6 and up) have 300
\* days, fund 3 has 252 days of which 201 overlap with them, fund 4 has 251.
returns_by_name(name) ==
    CASE name \in {1, 2} -> Some([first |-> 1, last |-> 300, value |-> Rat(name, 1000)])
      [] name = 3 -> Some([first |-> 100, last |-> 351, value |-> Rat(3, 1000)])
      [] name = 4 -> Some([first |-> 1, last |-> 251, value |-> Rat(4, 1000)])
      [] name = 5 -> None
      [] OTHER -> Some([first |-> 1, last |-> 300, value |-> Rat(1, 1000)])

\* len(returns)
series_len(s) == IF s.last < s.first THEN 0 ELSE s.last - s.first + 1

\* The loop filling returns_dict: the requested names that have a series of
\* at least 252 observations, each at the place of its first occurrence.
build_returns_dict(fund_names) ==
    LET kept(i) == /\ returns_by_name(fund_names[i]) # None
                   /\ series_len(returns_by_name(fund_names[i])[1]) >= MinObservations
                   /\ \A j \in 1..(i - 1) : fund_names[j] # fund_names[i]
        places == SelectSeq([i \in DOMAIN fund_names |-> i], kept)
    IN  [k \in DOMAIN places |-> fund_names[places[k]]]

Max(S) == CHOOSE x \in S : \A y \in S : y <= x

Min(S) == CHOOSE x \in S : \A y \in S : x <= y

\* Mutant: an outer join, the days any series has.
joined_len_outer(returns_dict) ==
    LET first == Min({ returns_by_name(f)[1].first : f \in Range(returns_dict) })
        last == Max({ returns_by_name(f)[1].last : f \in Range(returns_dict) })
    IN  IF last < first THEN 0 ELSE last - first + 1

\* len(pd.DataFrame(returns_dict).dropna()): the days every series has.
joined_len(returns_dict) ==
    LET first == Max({ returns_by_name(f)[1].first : f \in Range(returns_dict) })
        last == Min({ returns_by_name(f)[1].last : f \in Range(returns_dict) })
    IN  IF last < first THEN 0 ELSE last - first + 1

\* mean_returns = returns_df.mean() * 252; every row of a column is the
\* same return.
mean_returns(fund_names) ==
    [i \in DOMAIN fund_names |->
        RatMul(returns_by_name(fund_names[i])[1].value, <<252, 1>>)]

\* The sum of v[from..to], added up by halves.
RECURSIVE range_sum(_, _, _)
range_sum(v, from, to) ==
    IF from > to THEN RatZero
    ELSE IF from = to THEN v[from]
    ELSE RatAdd(range_sum(v, from, (from + to) \div 2),
                range_sum(v, (from + to) \div 2 + 1, to))

\* np.dot(weights, mean_returns)
dot(w, v) == range_sum([i \in DOMAIN w |-> RatMul(w[i], v[i])], 1, Len(w))

\* np.sqrt(w' cov_matrix w): the covariance of columns that are constant is
\* the zero matrix, so the root is 0, or NaN when a weight is NaN.
portfolio_vol(w) == IF \E i \in DOMAIN w : isna(w[i]) THEN NaN ELSE RatZero

\* np.sum(w)
np_sum(w) == range_sum(w, 1, Len(w))

\* The bounds of the request: (min_weight, max_weight), (0, 1) by default.
request_bounds(constraints) ==
    IF constraints = None THEN [lb |-> RatZero, ub |-> RatOne]
    ELSE [lb |-> constraints[1].min_weight, ub |-> constraints[1].max_weight]

\* A point that satisfies the bounds and the constraint sum(w) = 1.
Feasible(x, bounds) ==
    /\ np_sum(x) = RatOne
    /\ \A i \in DOMAIN x : RatLeq(bounds.lb, x[i]) /\ RatLeq(x[i], bounds.ub)

\* The points the solver is taken to report with success: equal weights,
\* all on the first fund, the first fund with 0.5% on each other, and a
\* short position with a 1% position beside it.
SolverPoints(n, bounds) ==
    { x \in { [i \in 1..n |-> Rat(1, n)],
              [i \in 1..n |-> IF i = 1 THEN RatOne ELSE RatZero],
              [i \in 1..n |-> IF i = 1 THEN Rat(200 - (n - 1), 200) ELSE Rat(1, 200)],
              [i \in 1..n |-> IF i = 1 THEN Rat(99 + 100 * (n - 2), 100)
                              ELSE IF i = 2 THEN Rat(1, 100) ELSE <<-1, 1>>] } :
        Feasible(x, bounds) }


\* optimal_weights[optimal_weights < threshold] = 0
filter_small(x) == [i \in DOMAIN x |-> IF RatLess(x[i], threshold) THEN RatZero ELSE x[i]]

\* optimal_weights / optimal_weights.sum(): 0 / 0 is NaN.
renormalize(w) ==
    LET total == np_sum(w)
    IN  [i \in DOMAIN w |-> IF total = RatZero THEN NaN ELSE RatDiv(w[i], total)]

\* weights_dict: the funds whose weight is above 0, in column order.
weights_dict(fund_names, w) ==
    LET kept == SelectSeq([i \in DOMAIN w |-> i], LAMBDA i : RatLess(RatZero, w[i]))
    IN  [k \in DOMAIN kept |-> [name |-> fund_names[kept[k]], weight |-> w[kept[k]]]]

\* An HTTPException, or an exception that escapes the handler.
Failure(status_code, detail) ==
    [status |-> "failure", status_code |-> status_code, detail |-> detail,
     weights |-> None]

\* The OptimizationResult built from the solver's point x after nit iterations.
OptimizationResult(fund_names, x, nit) ==
    LET optimal_weights == renormalize(filter_small(x))
        opt_return == dot(optimal_weights, mean_returns(fund_names))
        opt_vol == portfolio_vol(optimal_weights)
    IN  [status |-> "success",
         weights |-> Some(weights_dict(fund_names, optimal_weights)),
         expected_return |-> opt_return,
         expected_risk |-> opt_vol,
         sharpe_ratio |-> IF RatLess(RatZero, opt_vol) THEN RatDiv(opt_return, opt_vol)
                          ELSE RatZero,
         iterations |-> nit]

\* A call in flight or finished: the request, the columns of the return
\* matrix, the bounds, the iterations the solver made, what the solver
\* reported and what the handler answered.
OptCall(pc, request, fund_names, nit, success, outcome) ==
    [op |-> "optimize_portfolio", pc |-> pc, request |-> request,
     fund_names |-> fund_names, nit |-> nit, success |-> success,
     outcome |-> outcome]

\* The requests: the cache loaded or not, every list of at most MaxRequest
\* names of the funds 1..5 and the list of the large universe, no
\* constraints or one of four pairs of bounds.
OptNames ==
    SeqsUpTo(1..5, MaxRequest) \cup { [i \in 1..BigUniverse |-> 5 + i] }

OptConstraints ==
    { None,
      Some([min_weight |-> RatZero, max_weight |-> <<1, 4>>]),
      Some([min_weight |-> RatZero, max_weight |-> <<1, 2>>]),
      Some([min_weight |-> <<1, 2>>, max_weight |-> <<1, 4>>]),
      Some([min_weight |-> <<-1, 1>>, max_weight |-> <<2, 1>>]) }

InitOptimize ==
    /\ fund_details = NoTable
    /\ call \in { [op |-> "input_optimize",
                   request |-> [loaded |-> l, fund_names |-> f, constraints |-> c]] :
                    l \in BOOLEAN, f \in OptNames, c \in OptConstraints }

\* optimize_portfolio up to the call of minimize: the cache check, the
\* series of the lookback, the two data checks, the bounds; minimize raises
\* ValueError on a lower bound above the upper bound and otherwise starts
\* from the equal weights.
OptimizeStart ==
    /\ call.op = "input_optimize"
    /\ LET request == call.request
           returns_dict == build_returns_dict(request.fund_names)
           bounds == request_bounds(request.constraints)
           done(outcome) == OptCall("done", request, <<>>, 0, None, outcome)
       IN  call' =
             IF ~request.loaded
             THEN done(Failure(503, "Fund data not loaded"))
             ELSE IF Len(returns_dict) < 2
             THEN done(Failure(400, "Need at least 2 funds with sufficient data for optimization"))
             ELSE IF joined_len(returns_dict) < MinObservations
             THEN done(Failure(400, "Insufficient overlapping data"))
             ELSE IF RatLess(bounds.ub, bounds.lb)
             THEN OptCall("done", request, returns_dict, 0, None,
                          Failure(500, "ValueError"))
             ELSE OptCall("solving", request, returns_dict, 0, None, None)
    /\ UNCHANGED fund_details

\* Mutant: the solver iterates once past its limit.
SolverIterate_past_limit ==
    /\ call.op = "optimize_portfolio"
    /\ call.pc = "solving"
    /\ call.nit <= MaxIter
    /\ call' = [call EXCEPT !.nit = @ + 1]
    /\ UNCHANGED fund_details

\* One iteration of the solver, of which there are at most maxiter.
SolverIterate ==
    /\ call.op = "optimize_portfolio"
    /\ call.pc = "solving"
    /\ call.nit < MaxIter
    /\ call' = [call EXCEPT !.nit = @ + 1]
    /\ UNCHANGED fund_details

\* minimize returns without success (at the latest when the iterations are
\* used up) and the handler raises.
SolverFails ==
    /\ call.op = "optimize_portfolio"
    /\ call.pc = "solving"
    /\ call' = OptCall("done", call.request, call.fund_names, call.nit, Some(FALSE),
                       Failure(500, "Optimization failed to converge"))
    /\ UNCHANGED fund_details

\* minimize returns with success at a point that meets the bounds and the
\* constraint, and the handler builds the result.
SolverSucceeds ==
    /\ call.op = "optimize_portfolio"
    /\ call.pc = "solving"
    /\ \E x \in SolverPoints(Len(call.fund_names), request_bounds(call.request.constraints)) :
          call' = OptCall("done", call.request, call.fund_names, call.nit, Some(TRUE),
                          OptimizationResult(call.fund_names, x, call.nit))
    /\ UNCHANGED fund_details

NextOptimize == OptimizeStart \/ SolverIterate \/ SolverFails \/ SolverSucceeds

\* Every step of the handler and of the solver is taken once it can be.
SpecOptimize == InitOptimize /\ [][NextOptimize]_vars /\ WF_vars(NextOptimize)


IsOpt == call.op = "optimize_portfolio"

IsOptDone == IsOpt /\ call.pc = "done"

\* The requested funds with at least 252 observations in the lookback, and
\* the days on which all of them have one.
FundsWithData(request) ==
    { f \in Range(request.fund_names) :
        /\ returns_by_name(f) # None
        /\ returns_by_name(f)[1].last - returns_by_name(f)[1].first + 1 >= 252 }

CommonDays(request) ==
    LET spans == { returns_by_name(f)[1] : f \in FundsWithData(request) }
    IN  { d \in 1..400 : \A s \in spans : s.first <= d /\ d <= s.last }

DataShort(request) ==
    \/ Cardinality(FundsWithData(request)) < 2
    \/ Cardinality(CommonDays(request)) < 252

IsInsufficientData(outcome) == outcome.status = "failure" /\ outcome.status_code = 400

IsNotConverged(outcome) ==
    outcome.status = "failure" /\ outcome.detail = "Optimization failed to converge"

\* C12: optimize_portfolio fails with an insufficient-data error exactly
\* when fewer than 2 requested funds have 252 observations or the joined
\* matrix has fewer than 252 rows, and then the solver never ran; it fails
\* with a non-convergence error only after the solver ran and reported no
\* success; it succeeds only when the solver reported success; and no
\* failure carries a weight vector.
C12_FailureOutcomes ==
    /\ (IsOpt /\ call.pc = "solving") => ~DataShort(call.request)
    /\ IsOptDone =>
          /\ call.outcome.status = "failure" => call.outcome.weights = None
          /\ call.request.loaded =>
                (IsInsufficientData(call.outcome) <=> DataShort(call.request))
          /\ IsInsufficientData(call.outcome) => (call.success = None /\ call.nit = 0)
          /\ IsNotConverged(call.outcome) =>
                (call.success = Some(FALSE) /\ ~IsInsufficientData(call.outcome))
          /\ call.outcome.status = "success" =>
                (call.success = Some(TRUE) /\ call.outcome.weights # None)

\* Witness of C12: two funds with enough joined data, the solver ran three
\* iterations and reported no success, and the non-convergence error was
\* raised.
C12_Witness ==
    /\ IsOptDone
    /\ call.request.loaded
    /\ call.request.fund_names = <<1, 2>>
    /\ call.nit = 3
    /\ call.success = Some(FALSE)
    /\ IsNotConverged(call.outcome)

\* The total of the reported weights.
RECURSIVE ReportedTotal(_, _)
ReportedTotal(weights, n) ==
    IF n = 0 THEN RatZero ELSE RatAdd(ReportedTotal(weights, n - 1), weights[n].weight)

\* C13: in every successful result the reported weights sum to 1 and none
\* is below 1%, whatever the number of funds.
C13_WeightsNormalized ==
    (IsOptDone /\ call.outcome.status = "success") =>
        LET weights == call.outcome.weights[1]
        IN  /\ ReportedTotal(weights, Len(weights)) = RatOne
            /\ \A i \in DOMAIN weights : RatLeq(<<1, 100>>, weights[i].weight)

\* C14: the solver never makes more than 1000 iterations, and every call of
\* optimize_portfolio ends, with a result or a failure.
C14_BoundedTermination ==
    /\ [](IsOpt => call.nit <= 1000)
    /\ <>(IsOptDone /\ call.outcome.status \in {"success", "failure"})

\* Witness of C14: bounds that no point satisfies (two funds, at most 25%
\* each); the solver used all its iterations and the call ended with the
\* non-convergence failure.
C14_Witness ==
    /\ IsOptDone
    /\ Len(call.fund_names) = 2
    /\ call.request.constraints = Some([min_weight |-> RatZero, max_weight |-> <<1, 4>>])
    /\ call.nit = 1000
    /\ IsNotConverged(call.outcome)


(***************************************************************************)
(* Claims about calculate_fund_flow_metrics on the shared table            *)
(***************************************************************************)

IsFlow == call.op = "calculate_fund_flow_metrics"

\* The dates of a sequence of dated records.
DatesOf(records) == { records[i].date : i \in DOMAIN records }

\* C15: calculate_fund_flow_metrics returns null, and does not raise, when
\* the records or the identifier are null, no record matches the
\* identifier, fewer than 2 rows remain after the de-duplication (exactly 1
\* record in particular), or neither VL_PATRIM_LIQ nor NR_COTST is a column.
C15_FlowMissingIsNone ==
    IsFlow =>
        LET t == call.table_before
            id == call.cnpj_standard
            records == IF HasCol(t[1], "CNPJ_STANDARD") \/ HasCol(t[1], "CNPJ")
                       THEN RecordsOf(t[1], id[1]) ELSE <<>>
        IN  (\/ t = None
             \/ id = None
             \/ Len(records) = 0
             \/ Len(records) = 1
             \/ HasCol(t[1], "NR_COTST") /\ Cardinality(DatesOf(records)) < 2
             \/ IF call.fund_data = None THEN FALSE
                ELSE Len(call.fund_data[1].rows) < 2
             \/ ~HasCol(t[1], "VL_PATRIM_LIQ") /\ ~HasCol(t[1], "NR_COTST"))
            => call.result.kind = "none"

\* Witness of C15: two records of the fund on one date in a table with a
\* shareholder column; one row remained and the result is null.
C15_Witness ==
    /\ IsFlow
    /\ call.table_before # None
    /\ call.cnpj_standard # None
    /\ HasCol(call.table_before[1], "NR_COTST")
    /\ HasCol(call.table_before[1], "VL_PATRIM_LIQ")
    /\ call.fund_data # None
    /\ Len(RecordsOf(call.table_before[1], call.cnpj_standard[1])) = 2
    /\ Len(call.fund_data[1].rows) = 1
    /\ call.result.kind = "none"

\* C16 (as claimed): the rows the figures are computed from hold at most
\* one row per date, in ascending date order; with a shareholder column the
\* row of a date is the one with the highest count, without one it is the
\* first record of that date.
C16_OneRowPerDate ==
    (IsFlow /\ call.fund_data # None /\ call.result.kind # "none") =>
        LET t == call.table_before[1]
            rows == call.fund_data[1].rows
            records == RecordsOf(t, call.cnpj_standard[1])
            first(d) == records[CHOOSE i \in DOMAIN records :
                                  /\ records[i].date = d
                                  /\ \A j \in 1..(i - 1) : records[j].date # d]
        IN  /\ \A j, k \in DOMAIN rows : j < k => rows[j].idx < rows[k].idx
            /\ \A k \in DOMAIN rows :
                  IF HasCol(t, "NR_COTST")
                  THEN \A i \in DOMAIN records :
                          records[i].date = rows[k].idx =>
                             \/ isna(records[i].cells["NR_COTST"])
                             \/ /\ ~isna(rows[k].cells["NR_COTST"])
                                /\ RatLeq(records[i].cells["NR_COTST"],
                                          rows[k].cells["NR_COTST"])
                  ELSE \A c \in Range(t.columns) :
                          c \in DOMAIN rows[k].cells =>
                             rows[k].cells[c] = first(rows[k].idx).cells[c]


(***************************************************************************)
(* calculate_fund_flow_metrics on long histories                           *)
(***************************************************************************)

\* Bound: the most dates a long history holds.
MaxFlowRows == 24

\* The layouts of the long histories: all three figures; no shareholder
\* column; shareholders only; no AUM column.
FlowLayouts ==
    { <<"CNPJ_STANDARD", "VL_PATRIM_LIQ", "NR_COTST", "MOVIMENTACAO">>,
      <<"CNPJ_STANDARD", "VL_PATRIM_LIQ", "MOVIMENTACAO">>,
      <<"CNPJ_STANDARD", "NR_COTST">>,
      <<"CNPJ_STANDARD", "NR_COTST", "MOVIMENTACAO">> }

\* The record of day i of a history of n days: 1000 + i * i shareholders
\* (last_count on the last day), a transfer of i, an AUM of 500 (last_aum on
\* the last day).
FlowCell(col, i, n, last_aum, last_count) ==
    CASE col = "CNPJ_STANDARD" -> StdCnpj(1)
      [] col = "NR_COTST" -> IF i = n THEN last_count ELSE Rat(1000 + i * i, 1)
      [] col = "VL_PATRIM_LIQ" -> IF i = n THEN last_aum ELSE Rat(500, 1)
      [] col = "MOVIMENTACAO" -> Rat(i, 1)

\* A history of n days, inserted in date order or in reverse, with or
\* without a second record of the first day that has 1 shareholder.
FlowTable(columns, n, last_aum, last_count, reversed, dup) ==
    LET row(i, count) ==
            [idx |-> 20240100 + i,
             cells |-> [c \in Range(columns) |->
                          IF c = "NR_COTST" /\ count # None THEN count[1]
                          ELSE FlowCell(c, i, n, last_aum, last_count)]]
        days == [k \in 1..n |-> row(IF reversed THEN n + 1 - k ELSE k, None)]
    IN  [datetime_index |-> TRUE,
         columns |-> columns,
         rows |-> IF dup /\ n > 1 THEN Append(days, row(1, Some(RatOne))) ELSE days]

FlowTables ==
    { Some(FlowTable(columns, n, last_aum, last_count, reversed, dup)) :
        columns \in FlowLayouts, n \in 0..MaxFlowRows,
        last_aum \in {Rat(1000, 1), RatZero, NaN},
        last_count \in {Rat(2000, 1), RatZero},
        reversed \in BOOLEAN, dup \in BOOLEAN }

InitFlow ==
    /\ fund_details \in FlowTables
    /\ call = [op |-> "idle"]

\* A caller asks for the flow metrics of the fund of the history.
CallFlowOnHistory ==
    /\ call.op = "idle"
    /\ \E o \in calculate_fund_flow_metrics(fund_details, Some(StdCnpj(1))) :
          /\ fund_details' = o.table
          /\ call' = [op |-> "calculate_fund_flow_metrics",
                      table_before |-> fund_details,
                      cnpj_standard |-> Some(StdCnpj(1)),
                      result |-> o.result,
                      fund_data |-> o.fund_data]

NextFlow == CallFlowOnHistory

SpecFlow == InitFlow /\ [][NextFlow]_vars


IsFlowOk == IF IsFlow THEN call.result.kind = "ok" ELSE FALSE

\* The rows the figures were computed from and their columns.
FlowRows == call.fund_data[1].rows

FlowHas(col) == col \in Range(call.fund_data[1].columns)

\* The k-th value from the last of a column.
FromLast(col, k) == FlowRows[Len(FlowRows) - k + 1].cells[col]

\* The sum of the last k transfer values.
RECURSIVE LastTransfers(_)
LastTransfers(k) ==
    IF k = 0 THEN RatZero
    ELSE RatAdd(LastTransfers(k - 1), FromLast("MOVIMENTACAO", k))

\* C17: with n rows after the de-duplication, the weekly shareholder delta
\* is last - 6th-from-last when n >= 6 and the daily delta otherwise; the
\* monthly delta is last - 23rd-from-last when n >= 23 and the weekly delta
\* otherwise; the monthly transfers are the sum of the last 22 when n >= 22
\* and the weekly transfers otherwise; the weekly transfers are the sum of
\* the last 5 when n >= 5.
C17_WindowsAndFallbacks ==
    IsFlowOk =>
        LET n == Len(FlowRows)
            res == call.result
            delta(k) == RatSub(FromLast("NR_COTST", 1), FromLast("NR_COTST", k))
        IN  /\ FlowHas("NR_COTST") =>
                  /\ res.daily_investors = delta(2)[1]
                  /\ res.weekly_investors =
                        (IF n >= 6 THEN delta(6)[1] ELSE res.daily_investors)
                  /\ res.monthly_investors =
                        (IF n >= 23 THEN delta(23)[1] ELSE res.weekly_investors)
            /\ FlowHas("MOVIMENTACAO") =>
                  /\ n >= 5 => res.weekly_transfers = LastTransfers(5)
                  /\ res.monthly_transfers =
                        (IF n >= 22 THEN LastTransfers(22) ELSE res.weekly_transfers)

\* Witness of C17: 23 rows with shareholders and transfers; the monthly
\* delta reaches back to the first row and differs from the weekly one, and
\* the monthly transfers differ from the weekly ones.
C17_Witness ==
    /\ IsFlowOk
    /\ Len(FlowRows) = 23
    /\ FlowHas("NR_COTST") /\ FlowHas("MOVIMENTACAO")
    /\ call.result.monthly_investors # call.result.weekly_investors
    /\ call.result.weekly_investors # call.result.daily_investors
    /\ call.result.monthly_transfers # call.result.weekly_transfers

\* C18 (as claimed): with 2 <= n < 5 rows and a transfer column, the weekly
\* transfers are the sum of all n transfer values.
C18_ShortWeeklySum ==
    (IsFlowOk /\ FlowHas("MOVIMENTACAO") /\ Len(FlowRows) < 5) =>
        call.result.weekly_transfers = LastTransfers(Len(FlowRows))

\* The fraction delta / base, 0 when the base is 0 or absent.
FractionOf(delta, base) ==
    IF base = None THEN RatZero
    ELSE IF base[1] = RatZero THEN RatZero
    ELSE RatDiv(delta, base[1])

\* C19 (as claimed): every percentage field is its delta over the latest AUM
\* (transfers) or the latest shareholder count (investors) as a decimal
\* fraction, and 0 when that base is 0 or absent.
C19_DecimalFractions ==
    IsFlowOk =>
        LET res == call.result
            aum == IF FlowHas("VL_PATRIM_LIQ")
                   THEN Some(FromLast("VL_PATRIM_LIQ", 1)) ELSE None
            count == IF FlowHas("NR_COTST") THEN Some(FromLast("NR_COTST", 1)) ELSE None
        IN  /\ res.daily_transfers_pct = FractionOf(res.daily_transfers, aum)
            /\ res.weekly_transfers_pct = FractionOf(res.weekly_transfers, aum)
            /\ res.monthly_transfers_pct = FractionOf(res.monthly_transfers, aum)
            /\ res.daily_investors_pct = FractionOf(<<res.daily_investors, 1>>, count)
            /\ res.weekly_investors_pct = FractionOf(<<res.weekly_investors, 1>>, count)
            /\ res.monthly_investors_pct = FractionOf(<<res.monthly_investors, 1>>, count)


(***************************************************************************)
(* PortfolioMetrics: the scalar metrics                                    *)
(*                                                                         *)
(* A metric is NaN, +infinity or a number; a number is given by its sign   *)
(* and, where it is rational or the root of a rational, by its square (a   *)
(* fractional power of a rational has its sign only).                      *)
(***************************************************************************)

\* Bound: the longest return series the metrics are computed on.
MaxObs == 3

MNaN == [kind |-> "nan", sign |-> 0, sq |-> None]

MInf == [kind |-> "inf", sign |-> 1, sq |-> None]

SignOf(x) == IF x[1] > 0 THEN 1 ELSE IF x[1] < 0 THEN -1 ELSE 0

\* The float x.
MFloat(x) ==
    IF isna(x) THEN MNaN
    ELSE [kind |-> "num", sign |-> SignOf(x), sq |-> Some(RatMul(x, x))]

\* np.sqrt(x) of a float x >= 0.
MSqrt(x) ==
    IF isna(x) THEN MNaN
    ELSE [kind |-> "num", sign |-> SignOf(x), sq |-> Some(x)]

\* a / b for a number or NaN a and a non-zero number or NaN b.
MDiv(a, b) ==
    IF a.kind = "nan" \/ b.kind = "nan" THEN MNaN
    ELSE [kind |-> "num", sign |-> a.sign * b.sign,
          sq |-> IF a.sq # None /\ b.sq # None
                 THEN Some(RatDiv(a.sq[1], b.sq[1])) ELSE None]

\* abs(a)
MAbs(a) == IF a.kind = "num" THEN [a EXCEPT !.sign = IF @ = 0 THEN 0 ELSE 1] ELSE a

\* a == 0 and a > 0; both are false of NaN.
MIsZero(a) == a.kind = "num" /\ a.sign = 0

MPositive(a) == a.kind = "inf" \/ (a.kind = "num" /\ a.sign = 1)

\* annualized_return: (1 + total_return) ** (1 / years) - 1 with years =
\* n / periods_per_year.  The returns are at least -100%, so the base is not
\* negative; the power is the base itself when years is 1, and has the sign
\* of base - 1 throughout.
annualized_return(returns, periods_per_year) ==
    IF Len(returns) = 0 THEN MFloat(RatZero)
    ELSE LET base == ProdOnePlus(returns, 1, Len(returns))
             total_return == RatSub(base, RatOne)
             years == Rat(Len(returns), periods_per_year)
         IN  IF RatLeq(years, RatZero) THEN MFloat(RatZero)
             ELSE IF years = RatOne THEN MFloat(total_return)
             ELSE [kind |-> "num", sign |-> SignOf(total_return), sq |-> None]

\* volatility: returns.std() * np.sqrt(periods_per_year)
volatility(returns, periods_per_year) ==
    IF Len(returns) < 2 THEN MFloat(RatZero)
    ELSE MSqrt(RatMul(std_squared(returns), <<periods_per_year, 1>>))

\* sharpe_ratio with the default risk_free_rate of 0.0
sharpe_ratio(returns, periods_per_year) ==
    LET ann_ret == annualized_return(returns, periods_per_year)
        ann_vol == volatility(returns, periods_per_year)
    IN  IF MIsZero(ann_vol) THEN MFloat(RatZero) ELSE MDiv(ann_ret, ann_vol)

\* cumulative = (1 + returns).cumprod()
cumprod_one_plus(returns) ==
    [i \in DOMAIN returns |-> ProdOnePlus(returns, 1, i)]

\* cummax(): the running maximum.
RECURSIVE cummax(_, _)
cummax(v, n) ==
    IF n = 0 THEN <<>>
    ELSE IF n = 1 THEN <<v[1]>>
    ELSE LET prev == cummax(v, n - 1)
         IN  Append(prev, IF RatLeq(v[n], prev[n - 1]) THEN prev[n - 1] ELSE v[n])

\* x / y of floats: 0 / 0 is NaN (the numerators divided by 0 here are 0).
np_divide(x, y) == IF y = RatZero THEN NaN ELSE RatDiv(x, y)

\* Series.min(): the least of the non-null values, NaN when there is none.
series_min(v) ==
    LET valid == { i \in DOMAIN v : ~isna(v[i]) }
    IN  IF valid = {} THEN NaN
        ELSE v[CHOOSE i \in valid : \A j \in valid : RatLeq(v[i], v[j])]


\* max_drawdown: the least of (cumulative - running_max) / running_max.
max_drawdown(returns) ==
    IF Len(returns) = 0 THEN MFloat(RatZero)
    ELSE LET cumulative == cumprod_one_plus(returns)
             running_max == cummax(cumulative, Len(cumulative))
             drawdown == [i \in DOMAIN cumulative |->
                            np_divide(RatSub(cumulative[i], running_max[i]),
                                      running_max[i])]
         IN  MFloat(series_min(drawdown))

\* The values of a series, and the sum and the mean of a sequence of floats
\* (the mean of none is NaN).
values_of(returns) == [i \in DOMAIN returns |-> returns[i].value]

RECURSIVE sum_floats(_, _)
sum_floats(v, n) == IF n = 0 THEN RatZero ELSE RatAdd(sum_floats(v, n - 1), v[n])

mean_floats(v) == IF Len(v) = 0 THEN NaN ELSE RatDiv(sum_floats(v, Len(v)), <<Len(v), 1>>)

\* omega_ratio with the default threshold of 0.0
omega_ratio(returns) ==
    IF Len(returns) = 0 THEN MFloat(RatOne)
    ELSE LET excess == values_of(returns)
             pos == SelectSeq(excess, LAMBDA x : RatLess(RatZero, x))
             neg == SelectSeq(excess, LAMBDA x : RatLess(x, RatZero))
             gains == MFloat(sum_floats(pos, Len(pos)))
             losses == MAbs(MFloat(sum_floats(neg, Len(neg))))
         IN  IF MIsZero(losses)
             THEN (IF MPositive(gains) THEN MInf ELSE MFloat(RatOne))
             ELSE MDiv(gains, losses)

\* The values in ascending order.
RECURSIVE sorted_floats(_)
sorted_floats(v) ==
    IF Len(v) = 0 THEN <<>>
    ELSE LET i == CHOOSE i \in DOMAIN v : \A j \in DOMAIN v : RatLeq(v[i], v[j])
         IN  <<v[i]>> \o sorted_floats(SubSeq(v, 1, i - 1) \o SubSeq(v, i + 1, Len(v)))

\* np.percentile(v, q) of a non-empty v, by linear interpolation between the
\* two order statistics around position (n - 1) * q / 100.
percentile(v, q) ==
    LET a == sorted_floats(v)
        position == RatMul(<<Len(v) - 1, 1>>, RatDiv(q, <<100, 1>>))
        below == position[1] \div position[2]
        fraction == RatSub(position, <<below, 1>>)
    IN  IF below + 1 >= Len(a) THEN a[Len(a)]
        ELSE RatAdd(a[below + 1], RatMul(fraction, RatSub(a[below + 2], a[below + 1])))

\* rachev_ratio with the default alpha of 0.05
rachev_ratio(returns) ==
    IF Len(returns) = 0 THEN MFloat(RatOne)
    ELSE LET v == values_of(returns)
             upper_threshold == percentile(v, <<95, 1>>)
             lower_threshold == percentile(v, <<5, 1>>)
             expected_gain ==
                 MFloat(mean_floats(SelectSeq(v, LAMBDA x : RatLeq(upper_threshold, x))))
             expected_loss ==
                 MAbs(MFloat(mean_floats(SelectSeq(v, LAMBDA x : RatLeq(x, lower_threshold)))))
         IN  IF MIsZero(expected_loss)
             THEN (IF MPositive(expected_gain) THEN MInf ELSE MFloat(RatOne))
             ELSE MDiv(expected_gain, expected_loss)

\* sortino_ratio with the default target_return of 0.0
sortino_ratio(returns, periods_per_year) ==
    IF Len(returns) < 2 THEN MFloat(RatZero)
    ELSE LET ann_ret == annualized_return(returns, periods_per_year)
             downside_returns == SelectSeq(values_of(returns), LAMBDA x : RatLess(x, RatZero))
             squares == [i \in DOMAIN downside_returns |->
                           RatMul(downside_returns[i], downside_returns[i])]
             downside_std == MSqrt(RatMul(mean_floats(squares), <<periods_per_year, 1>>))
         IN  IF Len(downside_returns) = 0
             THEN (IF MPositive(ann_ret) THEN MInf ELSE MFloat(RatZero))
             ELSE IF MIsZero(downside_std)
             THEN (IF MPositive(ann_ret) THEN MInf ELSE MFloat(RatZero))
             ELSE MDiv(ann_ret, downside_std)

\* calmar_ratio: annualized return over abs(max_drawdown)
calmar_ratio(returns, periods_per_year) ==
    LET ann_ret == annualized_return(returns, periods_per_year)
        mdd == MAbs(max_drawdown(returns))
    IN  IF MIsZero(mdd)
        THEN (IF MPositive(ann_ret) THEN MInf ELSE MFloat(RatZero))
        ELSE MDiv(ann_ret, mdd)

ScalarMetrics ==
    {"annualized_return", "volatility", "sharpe_ratio", "max_drawdown",
     "omega_ratio", "rachev_ratio", "sortino_ratio", "calmar_ratio"}

\* The scalar metric of the given name.
scalar_metric(name, returns, periods_per_year) ==
    CASE name = "annualized_return" -> annualized_return(returns, periods_per_year)
      [] name = "volatility" -> volatility(returns, periods_per_year)
      [] name = "sharpe_ratio" -> sharpe_ratio(returns, periods_per_year)
      [] name = "max_drawdown" -> max_drawdown(returns)
      [] name = "omega_ratio" -> omega_ratio(returns)
      [] name = "rachev_ratio" -> rachev_ratio(returns)
      [] name = "sortino_ratio" -> sortino_ratio(returns, periods_per_year)
      [] name = "calmar_ratio" -> calmar_ratio(returns, periods_per_year)

\* The return series enumerated: at most MaxObs consecutive days, each with
\* a return of -100%, -50%, 0, +50% or +100%.
MetricReturns ==
    { [i \in DOMAIN v |-> [date |-> 20240100 + i, value |-> v[i]]] :
        v \in SeqsUpTo({<<-1, 1>>, <<-1, 2>>, RatZero, <<1, 2>>, RatOne}, MaxObs) }

\* periods_per_year: the default and two small values.
PeriodsPerYear == {1, 2, 252}

InitMetrics ==
    /\ fund_details = NoTable
    /\ call \in { [op |-> "input_metrics", returns |-> r, periods_per_year |-> p] :
                    r \in MetricReturns, p \in PeriodsPerYear }

\* A caller computes one scalar metric of the series it holds.
CallScalarMetric ==
    /\ call.op = "input_metrics"
    /\ \E name \in ScalarMetrics :
          call' = [op |-> "PortfolioMetrics",
                   metric |-> name,
                   returns |-> call.returns,
                   periods_per_year |-> call.periods_per_year,
                   result |-> scalar_metric(name, call.returns, call.periods_per_year)]
    /\ UNCHANGED fund_details

NextMetrics == CallScalarMetric

SpecMetrics == InitMetrics /\ [][NextMetrics]_vars

\* C20 (as claimed): every scalar metric is a number or +infinity, never
\* NaN, for every return series, empty, single and zero-denominator series
\* included.
C20_MetricsDefined ==
    call.op = "PortfolioMetrics" => call.result.kind \in {"num", "inf"}

(***************************************************************************)
(* PortfolioMetrics: the tail statistics (var, cvar and their upper        *)
(* counterparts), on series without null observations                      *)
(***************************************************************************)

\* Bound: the longest series the tail statistics are computed on.
MaxTailObs == 21

\* The default confidence of 0.95.
Confidence == <<19, 20>>

Hundred == <<100, 1>>

\* var: np.percentile(returns, (1 - confidence) * 100), 0.0 of no returns.
var(returns, confidence) ==
    IF Len(returns) = 0 THEN RatZero
    ELSE percentile(values_of(returns), RatMul(RatSub(RatOne, confidence), Hundred))

\* var_upper: np.percentile(returns, confidence * 100)
var_upper(returns, confidence) ==
    IF Len(returns) = 0 THEN RatZero
    ELSE percentile(values_of(returns), RatMul(confidence, Hundred))

\* A tail on the wrong side of the threshold.
lower_tail_reversed(v, var_value) == SelectSeq(v, LAMBDA x : RatLeq(var_value, x))

\* returns[returns <= var_value]
lower_tail(v, var_value) == SelectSeq(v, LAMBDA x : RatLeq(x, var_value))

\* returns[returns >= var_upper]
upper_tail(v, threshold_value) == SelectSeq(v, LAMBDA x : RatLeq(threshold_value, x))

\* cvar: the mean of the returns at or below var (NaN of an empty tail).
cvar(returns, confidence) ==
    IF Len(returns) = 0 THEN RatZero
    ELSE mean_floats(lower_tail(values_of(returns), var(returns, confidence)))

\* cvar_upper: the mean of the returns at or above var_upper.
cvar_upper(returns, confidence) ==
    IF Len(returns) = 0 THEN RatZero
    ELSE mean_floats(upper_tail(values_of(returns), var_upper(returns, confidence)))

\* The orders in which n values are laid out: ascending, descending, and the
\* even ranks ascending followed by the odd ranks descending.
Arrangement(order, n, i) ==
    CASE order = "asc" -> i
      [] order = "desc" -> n + 1 - i
      [] order = "mixed" -> IF i <= n \div 2 THEN 2 * i ELSE 2 * (n - i) + 1

\* The series enumerated: n consecutive days whose returns are the
\* hundredths 1 .. n + 1 without `skip` (all n + 1 are never used, so a skip
\* of 0 leaves 1 .. n), lowered by `shift` hundredths, in the given order;
\* with `crash` the least return is -100%, and with `repeat` the greatest
\* return occurs twice.
TailSeries(n, order, skip, shift, crash, repeat) ==
    LET rank(i) == Arrangement(order, n, i)
        hundredth(r) == (IF skip # 0 /\ r >= skip THEN r + 1 ELSE r) - shift
        value(r) == IF crash /\ r = 1 THEN <<-1, 1>>
                    ELSE IF repeat /\ r = n /\ n > 1 THEN Rat(hundredth(n - 1), 100)
                    ELSE Rat(hundredth(r), 100)
    IN  [i \in 1..n |-> [date |-> 20240100 + i, value |-> value(rank(i))]]

TailInputs ==
    { TailSeries(n, order, skip, shift, crash, repeat) :
        n \in 0..MaxTailObs, order \in {"asc", "desc", "mixed"},
        skip \in {0, 1, 2, 3}, shift \in {0, 11},
        crash \in BOOLEAN, repeat \in BOOLEAN }

InitTail ==
    /\ fund_details = NoTable
    /\ call \in { [op |-> "input_tail", returns |-> r] : r \in TailInputs }

\* A caller reports var_95 and cvar_95 of the series it holds.
CallTailRisk ==
    /\ call.op = "input_tail"
    /\ call' = [op |-> "tail_risk",
                returns |-> call.returns,
                var_95 |-> var(call.returns, Confidence),
                cvar_95 |-> cvar(call.returns, Confidence)]
    /\ UNCHANGED fund_details

NextTail == CallTailRisk

SpecTail == InitTail /\ [][NextTail]_vars

\* The number of distinct values of a series.
DistinctValues(returns) == Cardinality({ returns[i].value : i \in DOMAIN returns })

\* C21: for a series with at least 20 distinct values, the returns at or
\* below var(r, 0.95) are not empty (cvar is a number) and their mean
\* cvar(r, 0.95) does not exceed var(r, 0.95).
C21_CvarBelowVar ==
    (call.op = "tail_risk" /\ DistinctValues(call.returns) >= 20) =>
        /\ ~isna(call.cvar_95)
        /\ RatLeq(call.cvar_95, call.var_95)

\* Witness of C21: 21 returns of exactly 20 distinct values, out of order,
\* whose cvar is strictly below their var.
C21_Witness ==
    /\ call.op = "tail_risk"
    /\ Len(call.returns) = 21
    /\ DistinctValues(call.returns) = 20
    /\ \E i \in 1..20 : RatLess(call.returns[i + 1].value, call.returns[i].value)
    /\ \E i \in 1..20 : RatLess(call.returns[i].value, call.returns[i + 1].value)
    /\ ~isna(call.cvar_95)
    /\ call.cvar_95 # call.var_95

\* min(r - target, 0) squared, with the default target of 0.0.
ShortfallSquared(x) == IF RatLess(x, RatZero) THEN RatMul(x, x) ELSE RatZero

\* C22 (as claimed): the Sortino ratio of two or more returns, with the
\* default target of 0.0, is the annualized return over the downside
\* deviation sqrt(mean over all observations of min(r, 0) squared) *
\* sqrt(periods_per_year); with no return below the target it is +infinity
\* when the annualized return is positive and 0 otherwise.
C22_SortinoFormula ==
    (call.op = "PortfolioMetrics" /\ call.metric = "sortino_ratio"
        /\ Len(call.returns) >= 2) =>
        LET v == values_of(call.returns)
            ann_ret == annualized_return(call.returns, call.periods_per_year)
            shortfalls == [i \in DOMAIN v |-> ShortfallSquared(v[i])]
            deviation == MSqrt(RatMul(mean_floats(shortfalls),
                                      <<call.periods_per_year, 1>>))
        IN  call.result =
                IF \A i \in DOMAIN v : ~RatLess(v[i], RatZero)
                THEN (IF MPositive(ann_ret) THEN MInf ELSE MFloat(RatZero))
                ELSE MDiv(ann_ret, deviation)

(***************************************************************************)
(* PortfolioMetrics: rolling_sharpe and rolling_volatility                 *)
(***************************************************************************)

\* The periods per year that the rolling metrics annualize by.
AnnualPeriods == 252

\* calc_sharpe(r) with the default risk_free_rate of 0.0: the annualized
\* return is (1 + r.mean()) ** 252 - 1, which has the sign of the mean.
calc_sharpe(r) ==
    IF Len(r) < 2 THEN MNaN
    ELSE LET ann_ret == [kind |-> "num", sign |-> SignOf(mean(r)), sq |-> None]
             ann_vol == MSqrt(RatMul(std_squared(r), <<AnnualPeriods, 1>>))
         IN  IF MIsZero(ann_vol) THEN MNaN ELSE MDiv(ann_ret, ann_vol)

\* returns.rolling(window).std() * np.sqrt(252) of one window; the standard
\* deviation of a single observation is NaN.
window_volatility(r) ==
    IF Len(r) < 2 THEN MNaN
    ELSE MSqrt(RatMul(std_squared(r), <<AnnualPeriods, 1>>))

\* The trailing window of w observations that ends at position i.
trailing(returns, w, i) == SubSeq(returns, i - w + 1, i)

\* returns.rolling(window=window).apply(calc_sharpe): NaN until the window
\* is full.
rolling_sharpe(returns, w) ==
    [i \in DOMAIN returns |->
        IF i < w THEN MNaN ELSE calc_sharpe(trailing(returns, w, i))]

\* returns.rolling(window=window).std() * np.sqrt(252)
rolling_volatility(returns, w) ==
    [i \in DOMAIN returns |->
        IF i < w THEN MNaN ELSE window_volatility(trailing(returns, w, i))]

\* A caller computes the rolling Sharpe ratio of the series it holds.
CallRollingSharpe ==
    /\ call.op = "input_metrics"
    /\ \E w \in 1..MaxObs :
          call' = [op |-> "rolling_sharpe",
                   returns |-> call.returns,
                   window |-> w,
                   result |-> rolling_sharpe(call.returns, w)]
    /\ UNCHANGED fund_details

\* A caller computes the rolling volatility of the series it holds.
CallRollingVolatility ==
    /\ call.op = "input_metrics"
    /\ \E w \in 1..MaxObs :
          call' = [op |-> "rolling_volatility",
                   returns |-> call.returns,
                   window |-> w,
                   result |-> rolling_volatility(call.returns, w)]
    /\ UNCHANGED fund_details

NextRolling == CallRollingSharpe \/ CallRollingVolatility

SpecRolling == InitMetrics /\ [][NextRolling]_vars

\* C23 (as claimed): at every position where the trailing window is full,
\* rolling_sharpe is sharpe_ratio of the window's returns and
\* rolling_volatility is volatility of the window's returns.
C23_RollingIsWindowed ==
    /\ call.op = "rolling_sharpe" =>
          \A i \in call.window..Len(call.returns) :
              call.result[i] =
                  sharpe_ratio(trailing(call.returns, call.window, i), AnnualPeriods)
    /\ call.op = "rolling_volatility" =>
          \A i \in call.window..Len(call.returns) :
              call.result[i] =
                  volatility(trailing(call.returns, call.window, i), AnnualPeriods)

(***************************************************************************)
(* calculate_risk_metrics                                                  *)
(*                                                                         *)
(* mean, the percentiles, the tail means, min and max are floats; std and  *)
(* z_score are given by sign and square, skewness and kurtosis by sign.    *)
(***************************************************************************)

\* Bound: the longest series calculate_risk_metrics is called on.
MaxRiskObs == 11

\* The least number of non-null observations.
MinRiskObs == 10

\* returns_clean = returns.dropna()
returns_clean(returns) == dropna(returns)

\* The first observation rather than the last.
iloc_first(s) == s[1].value

\* returns_clean.iloc[-1]
iloc_last(s) == s[Len(s)].value

\* Series.max(): the greatest of the non-null values.
series_max(v) ==
    LET valid == { i \in DOMAIN v : ~isna(v[i]) }
    IN  IF valid = {} THEN NaN
        ELSE v[CHOOSE i \in valid : \A j \in valid : RatLeq(v[j], v[i])]

\* The deviations from the mean of the non-null floats v, as integers: each
\* scaled by the number of values and by their common denominator.
RECURSIVE common_denominator(_, _)
common_denominator(v, n) ==
    IF n = 0 THEN 1
    ELSE LET d == common_denominator(v, n - 1)
         IN  (d * v[n][2]) \div GCD(d, v[n][2])

deviations(v) ==
    LET d == common_denominator(v, Len(v))
        k == [i \in DOMAIN v |-> v[i][1] * (d \div v[i][2])]
        total == sum_floats([i \in DOMAIN k |-> <<k[i], 1>>], Len(k))[1]
    IN  [i \in DOMAIN v |-> Len(v) * k[i] - total]

\* The sum of the p-th powers of integers.
RECURSIVE power_sum(_, _, _)
power_sum(d, p, n) ==
    IF n = 0 THEN 0
    ELSE power_sum(d, p, n - 1) +
         (IF p = 2 THEN d[n] * d[n]
          ELSE IF p = 3 THEN d[n] * d[n] * d[n]
          ELSE d[n] * d[n] * d[n] * d[n])

IntSign(k) == IF k > 0 THEN 1 ELSE IF k < 0 THEN -1 ELSE 0

\* Series.skew(): sqrt(n (n - 1)) / (n - 2) * m3 / m2 ** 1.5 of three or
\* more values, 0 when m2 is 0; it has the sign of the third central moment.
skew(v) ==
    IF Len(v) < 3 THEN MNaN
    ELSE LET d == deviations(v)
         IN  IF power_sum(d, 2, Len(d)) = 0 THEN MFloat(RatZero)
             ELSE [kind |-> "num", sign |-> IntSign(power_sum(d, 3, Len(d))),
                   sq |-> None]

\* Series.kurtosis(): n (n + 1) (n - 1) m4 / ((n - 2) (n - 3) m2 ** 2)
\* - 3 (n - 1) ** 2 / ((n - 2) (n - 3)) of four or more values with m2 and m4
\* the sums of the squared and the fourth-power deviations, 0 when m2 is 0;
\* it has the sign of n (n + 1) m4 - 3 (n - 1) m2 ** 2.
kurtosis(v) ==
    IF Len(v) < 4 THEN MNaN
    ELSE LET d == deviations(v)
             n == Len(v)
             m2 == power_sum(d, 2, n)
             m4 == power_sum(d, 4, n)
         IN  IF m2 = 0 THEN MFloat(RatZero)
             ELSE [kind |-> "num",
                   sign |-> IntSign(n * (n + 1) * m4 - 3 * (n - 1) * m2 * m2),
                   sq |-> None]

\* (latest_return - mean) / std if std > 0 else 0.0
z_score(latest_return, mean_value, std) ==
    IF MPositive(std) THEN MDiv(MFloat(RatSub(latest_return, mean_value)), std)
    ELSE MFloat(RatZero)

\* calculate_risk_metrics(returns): None, or the dictionary of metrics.
calculate_risk_metrics(returns) ==
    IF returns = None THEN None
    ELSE IF Len(returns[1]) = 0 THEN None
    ELSE LET clean == returns_clean(returns[1])
             v == values_of(clean)
             latest_return == iloc_last(clean)
             mean_value == mean(clean)
             std == MSqrt(std_squared(clean))
         IN  IF Len(clean) < MinRiskObs THEN None
             ELSE Some([return |-> latest_return,
                        mean |-> mean_value,
                        std |-> std,
                        z_score |-> z_score(latest_return, mean_value, std),
                        var_95 |-> var(clean, Confidence),
                        var_5 |-> var_upper(clean, Confidence),
                        cvar_95 |-> cvar(clean, Confidence),
                        cvar_5 |-> cvar_upper(clean, Confidence),
                        min |-> series_min(v),
                        max |-> series_max(v),
                        skewness |-> skew(v),
                        kurtosis |-> kurtosis(v)])

\* The series enumerated: n consecutive days; the first `split` returns are
\* a tenths and the others b tenths, and the days in `nulls` have no return.
RiskSeries(n, split, a, b, nulls) ==
    [i \in 1..n |->
        [date |-> 20240100 + i,
         value |-> IF i \in nulls THEN NaN
                   ELSE IF i <= split THEN Rat(a, 10) ELSE Rat(b, 10)]]

RiskInputs ==
    {None} \cup
    { Some(RiskSeries(n, split, a, b, nulls)) :
        n \in 0..MaxRiskObs, split \in 0..MaxRiskObs,
        a \in {-1, 0, 1}, b \in {-1, 0, 1},
        nulls \in {{}, {1}, {MaxRiskObs}, {1, MaxRiskObs}, {2, MaxRiskObs - 1},
                   {MaxRiskObs - 1, MaxRiskObs}} }

InitRisk ==
    /\ fund_details = NoTable
    /\ call \in { [op |-> "input_risk", returns |-> r] : r \in RiskInputs }

\* The risk monitor computes the metrics of one series.
CallCalculateRiskMetrics ==
    /\ call.op = "input_risk"
    /\ call' = [op |-> "calculate_risk_metrics",
                returns |-> call.returns,
                result |-> calculate_risk_metrics(call.returns)]
    /\ UNCHANGED fund_details

NextRisk == CallCalculateRiskMetrics

SpecRisk == InitRisk /\ [][NextRisk]_vars

IsRisk == call.op = "calculate_risk_metrics"

\* The positions of the non-null observations of the series passed.
Observed ==
    IF call.returns = None THEN {}
    ELSE { i \in DOMAIN call.returns[1] : ~isna(call.returns[1][i].value) }

RiskFields ==
    {"return", "mean", "std", "z_score", "var_95", "var_5", "cvar_95", "cvar_5",
     "min", "max", "skewness", "kurtosis"}

\* C24: calculate_risk_metrics returns None exactly when the series is None
\* or has fewer than 10 non-null observations; otherwise it returns the
\* twelve fields, with return the latest non-null value, and z_score
\* (return - mean) / std, or 0 when std is 0.
C24_RiskSnapshot ==
    IsRisk =>
        /\ call.result = None <=> (call.returns = None \/ Cardinality(Observed) < 10)
        /\ call.result # None =>
              LET res == call.result[1]
                  latest == CHOOSE i \in Observed : \A j \in Observed : j <= i
              IN  /\ DOMAIN res = RiskFields
                  /\ res.return = call.returns[1][latest].value
                  /\ \A f \in {"mean", "var_95", "var_5", "cvar_95", "cvar_5",
                               "min", "max"} : ~isna(res[f])
                  /\ \A f \in {"std", "z_score", "skewness", "kurtosis"} :
                        res[f].kind = "num"
                  /\ res.z_score =
                        IF MIsZero(res.std) THEN MFloat(RatZero)
                        ELSE MDiv(MFloat(RatSub(res.return, res.mean)), res.std)

\* Witness of C24: a series of 11 observations, the last of them null, whose
\* 10 non-null observations give a result with a z_score other than 0.
C24_Witness ==
    /\ IsRisk
    /\ call.returns # None
    /\ Len(call.returns[1]) = 11
    /\ isna(call.returns[1][11].value)
    /\ Cardinality(Observed) = 10
    /\ call.result # None
    /\ call.result[1].z_score.sign # 0

\* C25 (as claimed): on the quota path, with every quota of the fund's
\* records present, the output holds every date of the records but the
\* earliest, and the return at a date is quota(date) / quota(preceding
\* distinct date) - 1 with each date's quota that of its first record,
\* duplicate dates included.
C25_QuotaReturns ==
    (IF IsGfrOk THEN call.quota_col # None ELSE FALSE) =>
        LET recs == RecordsOf(call.table_before[1], call.cnpj_standard[1])
            col == call.quota_col[1]
            dates == { recs[i].date : i \in DOMAIN recs }
            quota(d) == recs[CHOOSE i \in DOMAIN recs :
                               /\ recs[i].date = d
                               /\ \A j \in 1..(i - 1) : recs[j].date # d].cells[col]
            previous(d) == CHOOSE e \in dates :
                               e < d /\ \A o \in dates : o < d => o <= e
            full == call.result.full
        IN  (\A i \in DOMAIN recs : ~isna(recs[i].cells[col])) =>
                /\ { full[k].date : k \in DOMAIN full } =
                      { d \in dates : \E e \in dates : e < d }
                /\ \A k \in DOMAIN full :
                      (\E e \in dates : e < full[k].date) =>
                          full[k].value =
                              RatSub(RatDiv(quota(full[k].date),
                                            quota(previous(full[k].date))), RatOne)

\* C26 (as claimed): every weight reported in a successful result is at
\* most the requested max_weight, also after the weights below 1% were
\* zeroed and the rest renormalized.
C26_UpperBoundKept ==
    (IsOptDone /\ call.outcome.status = "success") =>
        LET weights == call.outcome.weights[1]
            max_weight == request_bounds(call.request.constraints).ub
        IN  \A i \in DOMAIN weights : RatLeq(weights[i].weight, max_weight)

(***************************************************************************)
(* The data cache and its loaders (load_all_data, reload_data)             *)
(*                                                                         *)
(* The server runs its coroutines on one event loop: a coroutine runs      *)
(* without interruption from one suspension to the next, and the only      *)
(* suspensions of the loaders are the remote fetches of                    *)
(* load_from_github_releases (awaiting load_fund_metrics() itself does not *)
(* suspend).  A table is None or Some(source), its source "github" or      *)
(* "demo".  In this specification fund_details is data_cache.fund_details  *)
(* and call holds the rest of the server: the two other tables of the      *)
(* cache, the settings, the load tasks and the last health check.          *)
(***************************************************************************)

\* Bound: the reload_data requests made while the server runs.
MaxReloads == 2

GithubTable == Some("github")

DemoTable == Some("demo")

\* DataCache.__init__ / DataCache.clear(): no table.
EmptyCache == [fund_metrics |-> None, fund_details |-> None, benchmarks |-> None]

\* DataCache.is_loaded()
is_loaded(cache) ==
    cache.fund_metrics # None /\ cache.fund_details # None /\ cache.benchmarks # None

\* Lines 111-116: the demo data replaces the three tables.
load_demo(cache) ==
    [fund_metrics |-> DemoTable, fund_details |-> DemoTable, benchmarks |-> DemoTable]

\* Where a load task stands: suspended in the fetch of an asset, inside
\* load_fund_metrics / load_fund_details / load_benchmarks as called from
\* `caller`, or returned from load_all_data.
Awaiting(asset, caller) == [asset |-> asset, caller |-> caller]

Returned == [asset |-> "none", caller |-> "none"]

\* A task's run from a point of the loaders to its next suspension: the
\* cache it leaves and where it stands.
RECURSIVE enter_fund_metrics(_, _, _)
RECURSIVE enter_fund_details(_, _)
RECURSIVE enter_benchmarks(_, _)

\* load_benchmarks returns: load_all_data returns its dictionary.
leave_benchmarks(cache) == [cache |-> cache, at |-> Returned]

\* load_fund_metrics returns to its caller: load_all_data goes on with
\* load_fund_details; load_fund_details and load_benchmarks return what the
\* cache holds.
leave_fund_metrics(cache, configured, caller) ==
    CASE caller = "load_all_data" -> enter_fund_details(cache, configured)
      [] caller = "load_fund_details" -> enter_benchmarks(cache, configured)
      [] caller = "load_benchmarks" -> leave_benchmarks(cache)

\* load_fund_metrics, lines 96-107: the cached table, or the fetch.
enter_fund_metrics(cache, configured, caller) ==
    IF cache.fund_metrics # None THEN leave_fund_metrics(cache, configured, caller)
    ELSE IF configured THEN [cache |-> cache, at |-> Awaiting("fund_metrics.pkl", caller)]
    ELSE leave_fund_metrics(load_demo(cache), configured, caller)

\* load_fund_metrics, lines 106-117, with the outcome df of the fetch.
resume_fund_metrics(cache, configured, caller, df) ==
    IF df # None
    THEN leave_fund_metrics([cache EXCEPT !.fund_metrics = df], configured, caller)
    ELSE leave_fund_metrics(load_demo(cache), configured, caller)

\* load_fund_details, lines 135-139, after no table was fetched.
fallback_fund_details(cache, configured) ==
    IF cache.fund_details = None
    THEN enter_fund_metrics(cache, configured, "load_fund_details")
    ELSE enter_benchmarks(cache, configured)

\* load_fund_details, lines 122-132.
enter_fund_details(cache, configured) ==
    IF cache.fund_details # None THEN enter_benchmarks(cache, configured)
    ELSE IF configured
    THEN [cache |-> cache, at |-> Awaiting("fund_details.pkl", "load_all_data")]
    ELSE fallback_fund_details(cache, configured)

\* load_fund_details, lines 131-139, with the outcome df of the fetch.
resume_fund_details(cache, configured, df) ==
    IF df # None
    THEN enter_benchmarks([cache EXCEPT !.fund_details = df], configured)
    ELSE fallback_fund_details(cache, configured)

\* load_benchmarks, lines 157-161, after no table was fetched.
fallback_benchmarks(cache, configured) ==
    IF cache.benchmarks = None
    THEN enter_fund_metrics(cache, configured, "load_benchmarks")
    ELSE leave_benchmarks(cache)

\* load_benchmarks, lines 144-154.
enter_benchmarks(cache, configured) ==
    IF cache.benchmarks # None THEN leave_benchmarks(cache)
    ELSE IF configured
    THEN [cache |-> cache, at |-> Awaiting("benchmarks.pkl", "load_all_data")]
    ELSE fallback_benchmarks(cache, configured)

\* load_benchmarks, lines 153-161, with the outcome df of the fetch.
resume_benchmarks(cache, configured, df) ==
    IF df # None
    THEN leave_benchmarks([cache EXCEPT !.benchmarks = df])
    ELSE fallback_benchmarks(cache, configured)

\* load_all_data() from its call to its first suspension.
load_all_data(cache, configured) ==
    enter_fund_metrics(cache, configured, "load_all_data")

\* A suspended task resumed with the outcome df of its fetch.
resume(cache, configured, at, df) ==
    CASE at.asset = "fund_metrics.pkl" ->
            resume_fund_metrics(cache, configured, at.caller, df)
      [] at.asset = "fund_details.pkl" -> resume_fund_details(cache, configured, df)
      [] at.asset = "benchmarks.pkl" -> resume_benchmarks(cache, configured, df)

\* The cache as the server holds it.
data_cache ==
    [fund_metrics |-> call.fund_metrics, fund_details |-> fund_details,
     benchmarks |-> call.benchmarks]

\* The server with the given cache and tasks; was_loaded: the three tables
\* have been loaded at some moment.
Server(phase, cache, tasks, health) ==
    [op |-> "server", phase |-> phase, configured |-> call.configured,
     fund_metrics |-> cache.fund_metrics, benchmarks |-> cache.benchmarks,
     tasks |-> tasks,
     was_loaded |-> IF call.op = "server" THEN call.was_loaded \/ is_loaded(cache)
                    ELSE is_loaded(cache),
     health |-> health]

\* A load task: its handler, where it stands, whether another load was in
\* progress during it, and, once it returned, whether the cache was loaded
\* at its return.
Task(handler, run, overlapped) ==
    [handler |-> handler, at |-> run.at, overlapped |-> overlapped,
     loaded_at_return |-> IF run.at = Returned THEN Some(is_loaded(run.cache)) ELSE None]

\* The process starts with an empty cache; GitHub is configured
\* (settings.github_repo and settings.github_token) or not.
InitLoad ==
    /\ fund_details = NoTable
    /\ call \in { [op |-> "boot", configured |-> c] : c \in BOOLEAN }

\* lifespan, startup: load_all_data() up to its first suspension; requests
\* are served once it has returned.
Startup ==
    /\ call.op = "boot"
    /\ LET run == load_all_data(EmptyCache, call.configured)
       IN  /\ fund_details' = run.cache.fund_details
           /\ call' = Server(IF run.at = Returned THEN "serving" ELSE "startup",
                             run.cache, <<Task("lifespan", run, FALSE)>>, None)

\* The fetch a task is suspended in ends, with a table or without, and the
\* task runs to its next suspension or to its return.
FetchEnds ==
    /\ call.op = "server"
    /\ \E t \in DOMAIN call.tasks, df \in {None, GithubTable} :
          /\ call.tasks[t].at # Returned
          /\ LET run == resume(data_cache, call.configured, call.tasks[t].at, df)
                 task == Task(call.tasks[t].handler, run, call.tasks[t].overlapped)
             IN  /\ fund_details' = run.cache.fund_details
                 /\ call' = Server(IF call.phase = "startup" /\ run.at = Returned
                                   THEN "serving" ELSE call.phase,
                                   run.cache, [call.tasks EXCEPT ![t] = task],
                                   call.health)

\* POST /reload-data: the cache is cleared and load_all_data() runs up to
\* its first suspension.
ReloadData ==
    /\ call.op = "server"
    /\ call.phase = "serving"
    /\ Len(call.tasks) <= MaxReloads
    /\ LET run == load_all_data(EmptyCache, call.configured)
           loading == { t \in DOMAIN call.tasks : call.tasks[t].at # Returned }
           tasks == [t \in DOMAIN call.tasks |->
                       IF t \in loading THEN [call.tasks[t] EXCEPT !.overlapped = TRUE]
                       ELSE call.tasks[t]]
       IN  /\ fund_details' = run.cache.fund_details
           /\ call' = Server("serving", run.cache,
                             Append(tasks, Task("reload_data", run, loading # {})),
                             call.health)

\* GET /health: a request reads the cache.
HealthCheck ==
    /\ call.op = "server"
    /\ call.phase = "serving"
    /\ call' = Server("serving", data_cache, call.tasks,
                      Some([data_loaded |-> is_loaded(data_cache),
                            after_load |-> call.was_loaded,
                            reloading |-> \E t \in DOMAIN call.tasks :
                                              call.tasks[t].at # Returned]))
    /\ UNCHANGED fund_details

\* lifespan, shutdown, once the requests in flight have ended: the cache is
\* cleared.
Shutdown ==
    /\ call.op = "server"
    /\ call.phase = "serving"
    /\ \A t \in DOMAIN call.tasks : call.tasks[t].at = Returned
    /\ fund_details' = NoTable
    /\ call' = Server("stopped", EmptyCache, call.tasks, call.health)

NextLoad == Startup \/ FetchEnds \/ ReloadData \/ HealthCheck \/ Shutdown

SpecLoad == InitLoad /\ [][NextLoad]_vars

\* C27 (as claimed): when load_all_data() returns from a call made on an
\* empty cache (the startup's, or a reload's with no other load in progress
\* meanwhile), the three tables are loaded.
C27_LoadedOnReturn ==
    call.op = "server" =>
        \A t \in DOMAIN call.tasks :
            (call.tasks[t].at = Returned /\ ~call.tasks[t].overlapped) =>
                call.tasks[t].loaded_at_return = Some(TRUE)

\* The sources of the tables the cache holds.
CacheSources ==
    { s[1] : s \in {call.fund_metrics, fund_details, call.benchmarks} \ {None} }

\* C28 (as claimed): at every moment the tables the cache holds are all
\* remote or all demo tables, also when loads interleave.
C28_SingleSource ==
    call.op = "server" => Cardinality(CacheSources) <= 1

\* C29 (as claimed): once the tables have been loaded, a request handled
\* while the server runs finds the cache loaded, a reload in progress or
\* not.
C29_ReloadAtomic ==
    (IF call.op = "server" THEN call.health # None ELSE FALSE) =>
        (call.health[1].after_load => call.health[1].data_loaded)

(***************************************************************************)
(* get_redis and the module-level _redis_client                            *)
(*                                                                         *)
(* A client is [ping_ok]: whether the connection test made when it was     *)
(* created succeeded.  call holds settings.redis_url (None, a URL, or a    *)
(* string redis.from_url rejects), _redis_client, and the calls made: what *)
(* each returned and whether the Redis server answered at the time.        *)
(***************************************************************************)

\* Bound: the calls of get_redis followed.
MaxRedisCalls == 5

RedisUrls == {None, Some("redis://cache:6379"), Some("cache:6379")}

\* get_redis() with the server answering or not: the _redis_client it
\* leaves and the value it returns.  redis.from_url raises ValueError on a
\* URL without a redis scheme, before _redis_client is assigned; ping()
\* raises ConnectionError after it was.
get_redis(redis_client, redis_url, reachable) ==
    IF redis_client = None /\ redis_url # None
    THEN IF redis_url = Some("cache:6379")
         THEN [redis_client |-> None, returned |-> None]
         ELSE LET created == Some([ping_ok |-> reachable])
              IN  IF reachable THEN [redis_client |-> created, returned |-> created]
                  ELSE [redis_client |-> created, returned |-> None]
    ELSE [redis_client |-> redis_client, returned |-> redis_client]

InitRedis ==
    /\ fund_details = NoTable
    /\ call \in { [op |-> "redis", redis_url |-> u, redis_client |-> None, calls |-> <<>>] :
                    u \in RedisUrls }

\* A caller asks for the Redis client.
CallGetRedis ==
    /\ call.op = "redis"
    /\ Len(call.calls) < MaxRedisCalls
    /\ \E reachable \in BOOLEAN :
          LET o == get_redis(call.redis_client, call.redis_url, reachable)
          IN  call' = [call EXCEPT
                         !.redis_client = o.redis_client,
                         !.calls = Append(@, [returned |-> o.returned,
                                              reachable |-> reachable])]
    /\ UNCHANGED fund_details

NextRedis == CallGetRedis

SpecRedis == InitRedis /\ [][NextRedis]_vars

\* C30 (as claimed): get_redis never hands out a client whose connection
\* test failed: the call whose ping fails returns None, and every call
\* returns None or a client whose own ping succeeded.
C30_OnlyTestedClients ==
    call.op = "redis" =>
        \A k \in DOMAIN call.calls :
            call.calls[k].returned # None => call.calls[k].returned[1].ping_ok


=============================================================================
